---- MODULE Spec2Model ----
(***************************************************************************)
(* A model of the synchronization engine of hiro_toggl: the sync_logs      *)
(* table (SyncAttempt rows), the cached entity tables, the request         *)
(* handlers of app/api/sync.py and the SyncService methods they call, each *)
(* cut into steps at its database round trips and remote calls, and the    *)
(* rate-governed transport of the Toggl client.                            *)
(***************************************************************************)
EXTENDS Integers, Sequences, FiniteSets, TLC

VARIABLES
    log,       \* the sync_logs table: a sequence of SyncLog rows, row id = index
    tables,    \* the entity tables: kind -> sequence of rows
    today,     \* date.today(), a day number
    clock,     \* datetime.utcnow(), a logical timestamp
    proc,      \* the request handlers (one database session, one client each)
    remote,    \* the workspace's data at the remote API: kind -> sequence of records
    config,    \* the window the operator's job passes to every historical-sync call,
               \* and under SpecAuto the auto-sync settings and the server's zone
    now,                \* time.time(), in ticks
    last_request_time,  \* EnhancedTogglClient._last_request_time, in ticks
    sent,               \* the start times of the HTTP requests sent by the client
    thread,             \* the threads calling _make_request on the client
    client              \* the client's project->client cache and its time-entry call

transport == <<now, last_request_time, sent, thread, client>>

vars == <<log, tables, today, clock, proc, remote, config, transport>>

----------------------------------------------------------------------------
(* Bounds of the model.                                                    *)

\* rows of the sync_logs table, per specification
MaxLogStart == 3
MaxLogConflict == 6
MaxLogChunk == 9
MaxLogUpsert == 3
MaxLogRepeat == 3
MaxLogBudget == 5
MaxLogComposite == 9
MaxLogBackfill == 9
MaxLogHistory == 9
\* midnights that pass
MaxDayShift == 1
\* the day the model starts on
Day0 == 1000

\* two handlers (two server workers, or a worker and a cron process), two workspaces
Procs == {1, 2}
Workspaces == {1, 2}

----------------------------------------------------------------------------
(* Basic values.                                                           *)

None == <<>>
Some(x) == <<x>>

Min(a, b) == IF a < b THEN a ELSE b
Max(a, b) == IF a > b THEN a ELSE b

EntityKinds == {"clients", "projects", "members", "time_entries"}

\* SyncLog(workspace_id, sync_type, start_time[, date_range_start, date_range_end]):
\* status defaults to 'running', the counts to 0, end_time and error_message to NULL.
SyncLog(ws, type, rs, re) ==
    [workspace_id |-> ws, sync_type |-> type, status |-> "running",
     start_time |-> clock, end_time |-> None,
     records_processed |-> 0, records_added |-> 0, records_updated |-> 0,
     error_message |-> "", date_range_start |-> rs, date_range_end |-> re]

----------------------------------------------------------------------------
(* SyncService._validate_rate_limits                                       *)

EntriesPerDay == 3
PageSize == 50
MaxEstimatedPages == 50
SafetyThreshold == 25

base_calls(sync_type) ==
    CASE sync_type = "clients" -> 1
      [] sync_type = "projects" -> 1
      [] sync_type = "members" -> 1
      [] sync_type = "time_entries" -> 3
      [] sync_type = "full" -> 6
      [] sync_type = "metadata" -> 3
      [] sync_type = "time_entries_only" -> 3
      [] OTHER -> 1

\* estimated_calls without the pagination calls
estimated_calls_base_only(sync_type, time_entries_days) ==
    base_calls(sync_type)

estimated_calls(sync_type, time_entries_days) ==
    IF sync_type \in {"time_entries", "time_entries_only", "full"} /\ time_entries_days > 0
    THEN LET estimated_entries == time_entries_days * EntriesPerDay
             pagination_calls == Max(1, (estimated_entries + (PageSize - 1)) \div PageSize)
         IN  base_calls(sync_type) + Min(pagination_calls, MaxEstimatedPages)
    ELSE base_calls(sync_type)

\* TRUE when _validate_rate_limits raises.
rate_limit_exceeded(sync_type, time_entries_days) ==
    estimated_calls(sync_type, time_entries_days) > SafetyThreshold

----------------------------------------------------------------------------
(* The entity upsert of sync_clients, sync_projects, sync_members and      *)
(* sync_time_entries. A pulled record is [id, val, ref]: the external id,  *)
(* the mutable fields, and the external id of the parent (a project's      *)
(* client, a time entry's project; 0 when it has none). A table row is     *)
(* [id, toggl_id, val, ref, workspace_id, sync_date]: ref is the parent's  *)
(* local id, 0 for NULL; updated_at and sync_date are the refresh stamps.   *)

NoStage == [updates |-> {}, inserts |-> <<>>, added |-> 0, updated |-> 0, processed |-> 0]

ParentKind(kind) ==
    CASE kind = "projects" -> "clients"
      [] kind = "time_entries" -> "projects"
      [] OTHER -> "none"

\* db.query(Model).filter(Model.toggl_id == toggl_id).first(): the row's index, 0 for None.
query_first(table, toggl_id) ==
    LET hits == {i \in 1..Len(table) : table[i].toggl_id = toggl_id}
    IN  IF hits = {} THEN 0 ELSE CHOOSE i \in hits : \A j \in hits : i <= j

\* the parent's external id taken for its local id
local_parent_id_external(tbls, kind, rec) == rec.ref

\* local_client_id / local_project_id: the parent's local id when the record names a
\* parent and the parent has a local row, else None.
local_parent_id(tbls, kind, rec) ==
    IF ParentKind(kind) = "none" \/ rec.ref = 0 THEN 0
    ELSE LET t == tbls[ParentKind(kind)]
             i == query_first(t, rec.ref)
         IN  IF i = 0 THEN 0 ELSE t[i].id

entity_row(tbls, kind, ws, day, rec) ==
    [toggl_id |-> rec.id, val |-> rec.val, ref |-> local_parent_id(tbls, kind, rec),
     workspace_id |-> ws, updated_at |-> clock,
     sync_date |-> IF kind = "time_entries" THEN day ELSE 0]

\* upsert_one counting an update as an addition
upsert_one_counts_added(tbls, kind, ws, day, rec, acc) ==
    LET i == query_first(tbls[kind], rec.id)
        row == entity_row(tbls, kind, ws, day, rec)
    IN  IF i # 0
        THEN [acc EXCEPT !.updates = {u \in @ : u.at # tbls[kind][i].id}
                                          \cup {[at |-> tbls[kind][i].id, row |-> row]},
                         !.added = @ + 1]
        ELSE [acc EXCEPT !.inserts = Append(@, row), !.added = @ + 1]

\* One pass of the "for toggl_x in toggl_xs" loop: an existing row is updated in place
\* (records_updated += 1), an absent one is added to the session (records_added += 1).
\* The session does not autoflush, so a row added earlier in the same loop is not seen
\* by the query.
upsert_one(tbls, kind, ws, day, rec, acc) ==
    LET i == query_first(tbls[kind], rec.id)
        row == entity_row(tbls, kind, ws, day, rec)
    IN  IF i # 0
        THEN [acc EXCEPT !.updates = {u \in @ : u.at # tbls[kind][i].id}
                                          \cup {[at |-> tbls[kind][i].id, row |-> row]},
                         !.updated = @ + 1]
        ELSE [acc EXCEPT !.inserts = Append(@, row), !.added = @ + 1]

RECURSIVE upsert_loop(_, _, _, _, _, _)
upsert_loop(tbls, kind, ws, day, pull, acc) ==
    IF pull = <<>> THEN acc
    ELSE upsert_loop(tbls, kind, ws, day, Tail(pull),
                     upsert_one(tbls, kind, ws, day, Head(pull), acc))

\* records_processed = len(pulled); then the loop.
stage_pull(tbls, kind, ws, day, pull) ==
    upsert_loop(tbls, kind, ws, day, pull, [NoStage EXCEPT !.processed = Len(pull)])

NextId(table) ==
    IF table = <<>> THEN 1
    ELSE 1 + (CHOOSE m \in {table[i].id : i \in 1..Len(table)} :
                \A i \in 1..Len(table) : table[i].id <= m)

\* a table without the unique constraint
unique_violation_unchecked(table, staged) == FALSE

\* toggl_id is unique=True: the flush of self.db.commit() fails when an added row's
\* toggl_id is already in the table or is added twice. (Member.email is unique too;
\* the members of the remote datasets used here have distinct addresses.)
unique_violation(table, staged) ==
    \/ \E k \in 1..Len(staged.inserts) : query_first(table, staged.inserts[k].toggl_id) # 0
    \/ \E k, l \in 1..Len(staged.inserts) :
          k # l /\ staged.inserts[k].toggl_id = staged.inserts[l].toggl_id

RECURSIVE insert_rows(_, _)
insert_rows(table, inserts) ==
    IF inserts = <<>> THEN table
    ELSE insert_rows(Append(table, [id |-> NextId(table)] @@ Head(inserts)), Tail(inserts))

\* flush_rows losing the updates
flush_rows_inserts_only(table, staged) ==
    insert_rows(table, staged.inserts)

\* a flush that writes nothing
flush_rows_lost(table, staged) == table

\* The flush: the updates go to their rows (by primary key), the added rows are
\* inserted.
flush_rows(table, staged) ==
    LET updated == [i \in 1..Len(table) |->
                      IF \E u \in staged.updates : u.at = table[i].id
                      THEN [id |-> table[i].id]
                           @@ (CHOOSE u \in staged.updates : u.at = table[i].id).row
                      ELSE table[i]]
    IN  insert_rows(updated, staged.inserts)


----------------------------------------------------------------------------
(* What the client returns for one entity fetch. n counts the calls of     *)
(* _make_request (each is one HTTP request, more when it is retried);      *)
(* failed_at is the position among them of the first one that raised, 0    *)
(* when none did.                                                          *)

MaxPages == 100
MappingRequests == 2

\* The "while True" of get_workspace_time_entries_with_clients: one request per page,
\* until a page shorter than page_size or page > 100. A page holds report groups, each
\* with any number of time entries, so the pull does not determine the page count.
pages_requested(full_pages) == Min(full_pages + 1, MaxPages)

\* get_workspace_clients / get_workspace_projects / get_workspace_users: one request.
simple_responses(kind) ==
    {[ok |-> TRUE, pull |-> remote[kind], n |-> 1, failed_at |-> 0],
     [ok |-> FALSE, pull |-> <<>>, n |-> 1, failed_at |-> 1]}

RECURSIVE copies(_, _)
copies(entries, k) == IF k = 0 THEN <<>> ELSE entries \o copies(entries, k - 1)

\* get_workspace_time_entries_with_clients: the project->client mapping (two requests
\* unless cached), then the pages. When a page request fails, the fallback: the
\* workspace users (one request), then GET /me/time_entries once per user, a failing
\* one being skipped: the pull is the token owner's entries once per answered request.
time_entries_responses(FullPages, Members, cached) ==
    LET mapping == IF cached THEN {0, MappingRequests} ELSE {MappingRequests}
        entries == remote["time_entries"]
    IN  {[ok |-> TRUE, pull |-> entries, n |-> m + pages_requested(f), failed_at |-> 0] :
            f \in FullPages, m \in mapping}
        \cup {[ok |-> TRUE, pull |-> copies(entries, x[2]),
               n |-> m + pages_requested(f) + 1 + x[1],
               failed_at |-> m + pages_requested(f)] :
                f \in FullPages, m \in mapping,
                x \in UNION {{<<u, k>> : k \in 0..u} : u \in Members}}
        \cup {[ok |-> FALSE, pull |-> <<>>, n |-> m + pages_requested(f) + 1,
               failed_at |-> m + pages_requested(f)] :
                f \in FullPages, m \in mapping}
        \cup {[ok |-> FALSE, pull |-> <<>>, n |-> k, failed_at |-> k] :
                k \in 1..MappingRequests}

\* The remote data changes.
RemoteChange(kind, Pulls) ==
    /\ \E pull \in Pulls : pull # remote[kind] /\ remote' = [remote EXCEPT ![kind] = pull]
    /\ UNCHANGED <<log, tables, today, clock, proc, config, transport>>

----------------------------------------------------------------------------
(* The historical window: get_next_historical_chunks.                      *)

total_chunks(total_days, chunk_size) == (total_days + chunk_size - 1) \div chunk_size

\* chunk_range without the min(): the last chunk is as long as the others
chunk_range_unclipped(total_days, chunk_size, chunk_index) ==
    [chunk_index |-> chunk_index,
     start_date |-> today - (chunk_index * chunk_size + chunk_size - 1),
     end_date |-> today - chunk_index * chunk_size]

\* The dates of a chunk, counted back from date.today().
chunk_range(total_days, chunk_size, chunk_index) ==
    LET chunk_start_pos == chunk_index * chunk_size
        chunk_end_pos == Min(chunk_start_pos + chunk_size - 1, total_days - 1)
    IN  [chunk_index |-> chunk_index,
         start_date |-> today - chunk_end_pos,
         end_date |-> today - chunk_start_pos]

\* The chunk indices of the completed time-entry rows of the workspace.
completed_chunks(workspace_id, total_days, chunk_size) ==
    {chunk_index \in 0..(total_chunks(total_days, chunk_size) - 1) :
        \E i \in 1..Len(log) :
            /\ log[i].workspace_id = workspace_id
            /\ log[i].sync_type = "time_entries"
            /\ log[i].status = "completed"
            /\ log[i].date_range_start # None
            /\ log[i].date_range_end # None
            /\ (today - log[i].date_range_end[1]) \div chunk_size = chunk_index}

\* "for chunk_index in range(total_chunks)": the chunks not completed are appended
\* until chunks_to_get of them are there.
RECURSIVE chunks_to_process(_, _, _, _, _, _)
chunks_to_process(completed, total_days, chunk_size, chunks_to_get, chunk_index, acc) ==
    IF chunk_index >= total_chunks(total_days, chunk_size) THEN acc
    ELSE IF chunk_index \in completed
    THEN chunks_to_process(completed, total_days, chunk_size, chunks_to_get,
                           chunk_index + 1, acc)
    ELSE LET more == Append(acc, chunk_range(total_days, chunk_size, chunk_index))
         IN  IF Len(more) >= chunks_to_get THEN more
             ELSE chunks_to_process(completed, total_days, chunk_size, chunks_to_get,
                                    chunk_index + 1, more)

get_next_historical_chunks(workspace_id, total_days, chunk_size, chunks_to_get) ==
    LET completed == completed_chunks(workspace_id, total_days, chunk_size)
    IN  [chunks_to_process |->
             chunks_to_process(completed, total_days, chunk_size, chunks_to_get, 0, <<>>),
         chunks_completed |-> Cardinality(completed),
         total_chunks |-> total_chunks(total_days, chunk_size),
         is_first_chunk |-> completed = {}]

----------------------------------------------------------------------------
(* The request handlers. A handler is idle or inside one operation; plan   *)
(* holds the entity syncs the operation still has to run, the first one    *)
(* being the current one, at position pc:                                  *)
(*   begin      - about to validate and to insert its running SyncLog row  *)
(*   fetch      - row committed, about to call the remote API              *)
(*   stage      - pull received, about to run the upsert loop              *)
(*   commit     - loop done, about to commit the entity rows               *)
(*   finish     - entity rows committed, about to mark the row completed   *)
(*   failed_log - a chunk has raised, about to insert its failed row       *)
(* An idle handler keeps the outcome of its last request. logs lists the   *)
(* rows the operation has inserted, sync_logs is its sync_logs list (the   *)
(* rows its entity syncs have returned and the failed rows it has added    *)
(* itself); step_calls and failed_at are those of the last fetch.          *)

Idle ==
    [pc |-> "idle", op |-> "none", ws |-> 0, sync_type |-> "none", days |-> 0,
     plan |-> <<>>, row |-> 0, pull |-> <<>>, staged |-> NoStage, logs |-> <<>>,
     ncalls |-> 0, cached |-> FALSE, next_chunks |-> None, chunks_processed |-> 0,
     result |-> None, out |-> "none", sync_logs |-> <<>>, step_calls |-> 0,
     failed_at |-> 0]

EntitySync(kind) ==
    [kind |-> kind, rs |-> None, re |-> None, days |-> None, idx |-> None]
\* sync_time_entries(workspace_id, start_date, end_date)
TimeEntriesSync(rs, re) ==
    [kind |-> "time_entries", rs |-> Some(rs), re |-> Some(re), days |-> None, idx |-> None]
\* step 4 of full_sync: the range is computed from date.today() when the step is reached
TimeEntriesBack(days) ==
    [kind |-> "time_entries", rs |-> None, re |-> None, days |-> Some(days), idx |-> None]
\* one chunk of a chunked historical sync
ChunkSync(chunk) ==
    [kind |-> "time_entries", rs |-> Some(chunk.start_date), re |-> Some(chunk.end_date),
     days |-> None, idx |-> Some(chunk.chunk_index)]

MetadataPlan == <<EntitySync("clients"), EntitySync("projects"), EntitySync("members")>>

\* The dispatch of start_sync: the service calls made for a sync_type.
sync_plan(sync_type, days) ==
    CASE sync_type \in {"clients", "projects", "members"} -> <<EntitySync(sync_type)>>
      [] sync_type \in {"time_entries", "time_entries_only"} ->
             <<TimeEntriesSync(today - days, today)>>
      [] sync_type = "full" -> MetadataPlan \o <<TimeEntriesBack(days)>>
      [] sync_type = "metadata" -> MetadataPlan

\* The validation at the head of full_sync and of sync_metadata.
composite_rejected(sync_type, days) ==
    \/ sync_type = "full" /\ rate_limit_exceeded("full", days)
    \/ sync_type = "metadata" /\ rate_limit_exceeded("metadata", 0)

\* get_sync_status(workspace_id, limit): the ids of the workspace's rows, latest
\* start_time first, at most limit of them.
RECURSIVE latest_first(_, _)
latest_first(ids, limit) ==
    IF limit = 0 \/ ids = {} THEN <<>>
    ELSE LET m == CHOOSE i \in ids : \A j \in ids :
                     \/ log[j].start_time < log[i].start_time
                     \/ log[j].start_time = log[i].start_time /\ j <= i
         IN  <<m>> \o latest_first(ids \ {m}, limit - 1)

get_sync_status(workspace_id, limit) ==
    latest_first({i \in 1..Len(log) : log[i].workspace_id = workspace_id}, limit)

\* The handler returns (or raises): its session is closed, the response is kept.
Respond(p, out) ==
    [proc[p] EXCEPT !.pc = "idle", !.out = out, !.plan = <<>>, !.row = 0,
                    !.pull = <<>>, !.staged = NoStage]

Enter(op, ws, sync_type, days, plan) ==
    [Idle EXCEPT !.pc = "begin", !.op = op, !.ws = ws, !.sync_type = sync_type,
                 !.days = days, !.plan = plan]

Refuse(op, ws, sync_type, days, out) ==
    [Idle EXCEPT !.op = op, !.ws = ws, !.sync_type = sync_type, !.days = days,
                 !.out = out]

\* POST /api/sync/start up to its first service call: the running-sync check, then
\* the dispatch on sync_type.
start_sync(p, ws, sync_type, days) ==
    /\ proc[p].pc = "idle"
    /\ LET recent_syncs == get_sync_status(ws, 1)
       IN  proc' = [proc EXCEPT ![p] =
             IF recent_syncs # <<>> /\ log[recent_syncs[1]].status = "running"
             THEN Refuse("start", ws, sync_type, days, "conflict")
             ELSE IF composite_rejected(sync_type, days)
             THEN Refuse("start", ws, sync_type, days, "rejected")
             ELSE Enter("start", ws, sync_type, days, sync_plan(sync_type, days))]
    /\ UNCHANGED <<log, tables, today, clock, remote, config, transport>>

\* POST /api/sync/force-sync: full_sync without the running-sync check.
force_full_sync(p, ws, days) ==
    /\ proc[p].pc = "idle"
    /\ proc' = [proc EXCEPT ![p] =
          IF composite_rejected("full", days)
          THEN Refuse("force", ws, "full", days, "rejected")
          ELSE Enter("force", ws, "full", days, sync_plan("full", days))]
    /\ UNCHANGED <<log, tables, today, clock, remote, config, transport>>

\* The result dictionaries of safe_chunked_historical_sync.
nothing_to_process(next_chunks) ==
    [status |-> "completed", chunks_processed |-> 0, chunks_remaining |-> 0,
     total_chunks |-> next_chunks.total_chunks, sync_logs |-> <<>>]

metadata_failed(next_chunks) ==
    [status |-> "failed", chunks_processed |-> 0,
     chunks_remaining |-> Len(next_chunks.chunks_to_process),
     total_chunks |-> next_chunks.total_chunks, sync_logs |-> <<>>]

progress(next_chunks, chunks_processed, sync_logs) ==
    LET remaining_chunks ==
            Max(0, next_chunks.total_chunks - next_chunks.chunks_completed - chunks_processed)
    IN  [status |-> IF remaining_chunks > 0 THEN "in_progress" ELSE "completed",
         chunks_processed |-> chunks_processed,
         chunks_remaining |-> remaining_chunks,
         total_chunks |-> next_chunks.total_chunks, sync_logs |-> sync_logs]

Return(p, result) ==
    [Respond(p, result.status) EXCEPT !.result = Some(result)]

\* safe_chunked_historical_sync up to its first entity sync: the next chunks are read
\* from the log; the metadata is synced first when no chunk is completed.
safe_chunked_historical_sync(p, ws, total_days, chunk_size, chunks_per_call) ==
    /\ proc[p].pc = "idle"
    /\ LET next_chunks == get_next_historical_chunks(ws, total_days, chunk_size,
                                                     chunks_per_call)
           chunks == next_chunks.chunks_to_process
           call == [Idle EXCEPT !.op = "historical", !.ws = ws,
                                !.sync_type = "historical", !.days = total_days,
                                !.next_chunks = Some(next_chunks)]
       IN  proc' = [proc EXCEPT ![p] =
             IF chunks = <<>>
             THEN [call EXCEPT !.out = "completed",
                               !.result = Some(nothing_to_process(next_chunks))]
             ELSE [call EXCEPT !.pc = "begin",
                               !.plan = (IF next_chunks.is_first_chunk
                                         THEN MetadataPlan ELSE <<>>)
                                        \o [k \in 1..Len(chunks) |-> ChunkSync(chunks[k])]]]
    /\ UNCHANGED <<log, tables, today, clock, remote, config, transport>>

\* range(0, total_days, chunk_size): the multiples of chunk_size below total_days
chunk_starts(total_days, chunk_size) ==
    LET starts == {chunk_start \in 0..(total_days - 1) : chunk_start % chunk_size = 0}
    IN  [k \in 1..Cardinality(starts) |-> (k - 1) * chunk_size]

\* the body of the loop: the dates of the chunk that begins chunk_start days back
loop_chunk(total_days, chunk_size, chunk_start) ==
    LET chunk_end == Min(chunk_start + chunk_size - 1, total_days - 1)
    IN  [chunk_index |-> chunk_start \div chunk_size,
         start_date |-> today - chunk_end,
         end_date |-> today - chunk_start]

\* "for chunk_start in range(0, total_days, chunk_size)": the chunks of the window,
\* their dates counted back from the date.today() read before the loop.
all_chunks(total_days, chunk_size) ==
    [k \in 1..Len(chunk_starts(total_days, chunk_size)) |->
        ChunkSync(loop_chunk(total_days, chunk_size, chunk_starts(total_days, chunk_size)[k]))]

\* chunked_historical_sync up to its first entity sync: sync_metadata, then every chunk
\* of the window in one call.
chunked_historical_sync(p, ws, total_days, chunk_size) ==
    /\ proc[p].pc = "idle"
    /\ proc' = [proc EXCEPT ![p] =
          IF composite_rejected("metadata", 0)
          THEN Refuse("chunked", ws, "chunked", total_days, "rejected")
          ELSE Enter("chunked", ws, "chunked", total_days,
                     MetadataPlan \o all_chunks(total_days, chunk_size))]
    /\ UNCHANGED <<log, tables, today, clock, remote, config, transport>>

----------------------------------------------------------------------------
(* The steps of one entity sync (sync_clients, sync_projects, sync_members,*)
(* sync_time_entries) and what the calling operation does with its outcome.*)

Current(p) == Head(proc[p].plan)

range_start(item) == IF item.days # None THEN today - item.days[1] ELSE item.rs[1]
range_end(item) == IF item.days # None THEN today ELSE item.re[1]

\* The validations before the row of a time-entry sync: for a chunk, the one of the
\* chunk loop (on chunk_days = (end - start).days + 1), then the one of
\* sync_time_entries (on (end_date - start_date).days).
preflight_rejected(item) ==
    /\ item.kind = "time_entries"
    /\ \/ /\ item.idx # None
          /\ rate_limit_exceeded("time_entries", range_end(item) - range_start(item) + 1)
       \/ rate_limit_exceeded("time_entries", range_end(item) - range_start(item))

\* raised going on with the next entity sync of the plan
raised_goes_on(p, out) ==
    IF Len(proc[p].plan) > 1
    THEN [proc[p] EXCEPT !.pc = "begin", !.plan = Tail(@), !.row = 0, !.pull = <<>>,
                         !.staged = NoStage]
    ELSE Respond(p, out)

\* The current entity sync raises, the session being usable: a chunk loop goes to its
\* except branch; safe_chunked_historical_sync returns "failed" for a metadata sync;
\* elsewhere the exception reaches the endpoint, which answers with an error.
raised(p, out) ==
    IF Current(p).idx # None
    THEN [proc[p] EXCEPT !.pc = "failed_log", !.row = 0, !.pull = <<>>, !.staged = NoStage]
    ELSE IF proc[p].op = "historical"
    THEN Return(p, metadata_failed(proc[p].next_chunks[1]))
    ELSE Respond(p, out)

\* The current entity sync raises out of a failed flush: every later commit of the
\* session raises too, the one of the chunk's except branch included.
session_broken(p) ==
    IF proc[p].op = "historical" /\ Current(p).idx = None
    THEN Return(p, metadata_failed(proc[p].next_chunks[1]))
    ELSE Respond(p, "error")

\* The current entity sync returns its completed row.
returned(p) ==
    LET chunk == proc[p].op = "historical" /\ Current(p).idx # None
        chunks_processed == proc[p].chunks_processed + (IF chunk THEN 1 ELSE 0)
        sync_logs == Append(proc[p].sync_logs, proc[p].row)
    IN  IF Len(proc[p].plan) > 1
        THEN [proc[p] EXCEPT !.pc = "begin", !.plan = Tail(@), !.row = 0, !.pull = <<>>,
                             !.staged = NoStage, !.chunks_processed = chunks_processed,
                             !.sync_logs = sync_logs]
        ELSE IF proc[p].op = "historical"
        THEN [Return(p, progress(proc[p].next_chunks[1], chunks_processed, sync_logs))
                 EXCEPT !.chunks_processed = chunks_processed, !.sync_logs = sync_logs]
        ELSE [Respond(p, "ok") EXCEPT !.sync_logs = sync_logs]

\* mark_failed leaving the end timestamp unset
mark_failed_open(i, message) ==
    [log EXCEPT ![i].status = "failed", ![i].error_message = message]

mark_failed(i, message) ==
    [log EXCEPT ![i].end_time = Some(clock), ![i].status = "failed",
                ![i].error_message = message]

mark_completed(i, staged) ==
    [log EXCEPT ![i].end_time = Some(clock), ![i].status = "completed",
                ![i].records_processed = staged.processed,
                ![i].records_added = staged.added,
                ![i].records_updated = staged.updated]

\* _validate_rate_limits, then sync_log = SyncLog(...); db.add; db.commit.
Begin(p) ==
    /\ proc[p].pc = "begin"
    /\ LET item == Current(p)
           dated == item.kind = "time_entries"
       IN  IF preflight_rejected(item)
           THEN /\ proc' = [proc EXCEPT ![p] = raised(p, "rejected")]
                /\ UNCHANGED <<log, clock>>
           ELSE /\ log' = Append(log,
                      SyncLog(proc[p].ws, item.kind,
                              IF dated THEN Some(range_start(item)) ELSE None,
                              IF dated THEN Some(range_end(item)) ELSE None))
                /\ clock' = clock + 1
                /\ proc' = [proc EXCEPT ![p].pc = "fetch", ![p].row = Len(log) + 1,
                                        ![p].logs = Append(@, Len(log) + 1)]
    /\ UNCHANGED <<tables, today, remote, config, transport>>

responses(p, FullPages, Members) ==
    IF Current(p).kind = "time_entries"
    THEN time_entries_responses(FullPages, Members, proc[p].cached)
    ELSE simple_responses(Current(p).kind)

\* The remote call of the entity sync; when it raises, the except branch marks the row
\* failed, commits and re-raises.
Fetch(p, FullPages, Members) ==
    /\ proc[p].pc = "fetch"
    /\ \E r \in responses(p, FullPages, Members) :
          IF r.ok
          THEN /\ proc' = [proc EXCEPT ![p].pc = "stage", ![p].pull = r.pull,
                                       ![p].ncalls = @ + r.n,
                                       ![p].cached = @ \/ Current(p).kind = "time_entries",
                                       ![p].step_calls = r.n,
                                       ![p].failed_at = r.failed_at]
               /\ UNCHANGED <<log, clock>>
          ELSE /\ log' = mark_failed(proc[p].row, "remote call failed")
               /\ clock' = clock + 1
               /\ proc' = [proc EXCEPT ![p] =
                     [raised(p, "error") EXCEPT !.ncalls = @ + r.n, !.step_calls = r.n,
                                                !.failed_at = r.failed_at]]
    /\ UNCHANGED <<tables, today, remote, config, transport>>

\* datetime.fromisoformat(entry.start...) returns: val 0 stands for the fields of an
\* entry whose start is not an ISO time.
start_parses(rec) == rec.val # 0

\* the position of the first entry of the pull at which the loop raises, 0 for none
first_unparsable(kind, pull) ==
    LET bad == {k \in 1..Len(pull) : kind = "time_entries" /\ ~start_parses(pull[k])}
    IN  IF bad = {} THEN 0 ELSE CHOOSE k \in bad : \A l \in bad : k <= l

\* The upsert loop: its queries read the committed tables. When the loop raises at an
\* entry, the except branch marks the row failed and commits the session, in which the
\* rows written and added for the entries before it are pending.
Stage(p) ==
    /\ proc[p].pc = "stage"
    /\ LET kind == Current(p).kind
           pull == proc[p].pull
           k == first_unparsable(kind, pull)
           staged == stage_pull(tables, kind, proc[p].ws, today, SubSeq(pull, 1, k - 1))
       IN  IF k = 0
           THEN /\ proc' = [proc EXCEPT ![p].pc = "commit",
                                   ![p].staged = stage_pull(tables, kind, proc[p].ws,
                                                            today, pull)]
                /\ UNCHANGED <<log, tables, clock>>
           ELSE IF unique_violation(tables[kind], staged)
           THEN /\ proc' = [proc EXCEPT ![p] = session_broken(p)]
                /\ UNCHANGED <<log, tables, clock>>
           ELSE /\ tables' = [tables EXCEPT ![kind] = flush_rows(@, staged)]
                /\ log' = mark_failed(proc[p].row, "Invalid isoformat string")
                /\ clock' = clock + 1
                /\ proc' = [proc EXCEPT ![p] = raised(p, "error")]
    /\ UNCHANGED <<today, remote, config, transport>>

\* self.db.commit() after the loop. When the flush fails on the unique toggl_id, the
\* session is left needing a rollback, so the commit of the except branch raises too:
\* the SyncLog row keeps status running and the exception leaves the entity sync.
Commit(p) ==
    /\ proc[p].pc = "commit"
    /\ LET kind == Current(p).kind
       IN  IF unique_violation(tables[kind], proc[p].staged)
           THEN /\ proc' = [proc EXCEPT ![p] = session_broken(p)]
                /\ UNCHANGED tables
           ELSE /\ tables' = [tables EXCEPT ![kind] = flush_rows(@, proc[p].staged)]
                /\ proc' = [proc EXCEPT ![p].pc = "finish"]
    /\ UNCHANGED <<log, today, clock, remote, config, transport>>

\* The SyncLog row is marked completed with its counts and committed; the entity sync
\* returns.
Finish(p) ==
    /\ proc[p].pc = "finish"
    /\ log' = mark_completed(proc[p].row, proc[p].staged)
    /\ clock' = clock + 1
    /\ proc' = [proc EXCEPT ![p] = returned(p)]
    /\ UNCHANGED <<tables, today, remote, config, transport>>

\* The except branch of a chunk loop: a failed row for the chunk's range; then "break"
\* and the result in safe_chunked_historical_sync, "continue" with the next chunk in
\* chunked_historical_sync.
failed_log(p) ==
    /\ proc[p].pc = "failed_log"
    /\ LET item == Current(p)
       IN  log' = Append(log,
                    [SyncLog(proc[p].ws, "time_entries", item.rs, item.re)
                        EXCEPT !.end_time = Some(clock), !.status = "failed",
                               !.error_message = "chunk failed"])
    /\ clock' = clock + 1
    /\ LET logs == Append(proc[p].logs, Len(log) + 1)
           sync_logs == Append(proc[p].sync_logs, Len(log) + 1)
       IN  proc' = [proc EXCEPT ![p] =
             IF proc[p].op = "historical"
             THEN [Return(p, progress(proc[p].next_chunks[1], proc[p].chunks_processed,
                                      sync_logs))
                      EXCEPT !.logs = logs, !.sync_logs = sync_logs]
             ELSE IF Len(proc[p].plan) > 1
             THEN [proc[p] EXCEPT !.pc = "begin", !.plan = Tail(@), !.logs = logs,
                                  !.sync_logs = sync_logs]
             ELSE [Respond(p, "ok") EXCEPT !.logs = logs, !.sync_logs = sync_logs]]
    /\ UNCHANGED <<tables, today, remote, config, transport>>

\* The process is killed inside an operation: what it committed stays, the rest is lost.
Crash(p) ==
    /\ proc[p].pc # "idle"
    /\ proc' = [proc EXCEPT ![p] = Respond(p, "crashed")]
    /\ UNCHANGED <<log, tables, today, clock, remote, config, transport>>

\* Midnight passes.
NextDay ==
    /\ today < Day0 + MaxDayShift
    /\ today' = today + 1
    /\ UNCHANGED <<log, tables, clock, proc, remote, config, transport>>

\* The model's bound on the sync_logs table: an operation is admitted while the rows of
\* the table, those the running operations may still insert and its own fit in cap.
RECURSIVE planned_rows(_)
planned_rows(ps) ==
    IF ps = {} THEN 0
    ELSE LET q == CHOOSE q \in ps : TRUE
         IN  Len(proc[q].plan) + (IF proc[q].op = "historical" /\ proc[q].pc # "idle"
                                  THEN 1 ELSE 0)
             + (IF proc[q].op = "chunked"
                THEN Len(SelectSeq(proc[q].plan, LAMBDA item : item.idx # None)) ELSE 0)
             + planned_rows(ps \ {q})

Admitted(cap, rows) == Len(log) + planned_rows(Procs) + rows <= cap

----------------------------------------------------------------------------
(* The transport: EnhancedTogglClient._make_request under its retry        *)
(* decorator, and _throttle_request. Time is counted in ticks; a thread is *)
(* at position pc:                                                         *)
(*   throttle - _make_request entered, about to read the clock             *)
(*   sleep    - inside time.sleep(sleep_time)                              *)
(*   stamp    - about to set _last_request_time and to send the request    *)
(*   wait     - request sent, waiting for the response                     *)

TicksPerSecond == 2
MaxTime == 8
MaxRequests == 4
max_tries == 3

Threads == {1, 2}

\* What a call of _make_request has given its caller: nothing yet, the decoded body, or
\* an exception with its class, its status_code attribute and the text its message
\* starts with.
NoResult == [kind |-> "none", class |-> "none", status_code |-> None, message |-> "none"]
Returned(body) == [kind |-> "return", class |-> body, status_code |-> None,
                   message |-> "none"]
Raised(class, status_code, message) ==
    [kind |-> "raise", class |-> class, status_code |-> status_code, message |-> message]

\* status is the outcome of the call's last HTTP attempt.
IdleThread == [pc |-> "idle", wake |-> 0, tries |-> 0, attempts |-> 0, out |-> NoResult,
               status |-> "none"]

\* The outcomes of one HTTP attempt that _make_request tells apart: a response with a
\* JSON body, with an empty body or with a body that is not JSON, the error statuses,
\* and a failure of session.request itself.
Statuses == {"ok", "empty", "malformed", "rate_limited", "unauthorized", "forbidden",
             "payment_required", "gone", "client_error", "server_error", "network"}

\* response.status_code; a network failure has no response.
status_code(status) ==
    CASE status = "rate_limited" -> Some(429)
      [] status = "unauthorized" -> Some(401)
      [] status = "forbidden" -> Some(403)
      [] status = "payment_required" -> Some(402)
      [] status = "gone" -> Some(410)
      [] status = "client_error" -> Some(404)
      [] status = "server_error" -> Some(500)
      [] status = "network" -> None
      [] OTHER -> Some(200)

\* The body of _make_request after session.request: what one attempt returns or raises.
\* response.json() raises a ValueError on a body that is not JSON; in the releases of
\* requests whose JSONDecodeError is also a RequestException the clause for
\* RequestException, which comes first, catches it.
attempt_results(status) ==
    LET code == status_code(status)
    IN  IF code = None THEN {Raised("TogglAPIError", None, "Request failed")}
        ELSE IF code[1] = 429
             THEN {Raised("TogglRateLimitError", code, "Rate limit exceeded")}
        ELSE IF code[1] = 401 \/ code[1] = 403
             THEN {Raised("TogglAuthenticationError", code, "Authentication failed")}
        ELSE IF code[1] = 402
             THEN {Raised("TogglPaymentRequiredError", code, "Payment required")}
        ELSE IF code[1] = 410
             THEN {Raised("TogglEndpointGoneError", code, "Endpoint is no longer available")}
        ELSE IF 400 <= code[1] /\ code[1] < 500
             THEN {Raised("TogglAPIError", code, "Client error")}
        ELSE IF code[1] >= 500
             THEN {Raised("TogglAPIError", code, "Server error")}
        ELSE IF status = "empty" THEN {Returned("{}")}
        ELSE IF status = "malformed"
             THEN {Raised("TogglAPIError", None, "Invalid JSON response"),
                   Raised("TogglAPIError", None, "Request failed")}
        ELSE {Returned("json")}

\* A retry decorator that retries every exception _make_request raises.
retried_any_error(result) == result.kind = "raise"

\* backoff.on_exception(..., (TogglRateLimitError, requests.exceptions.ConnectionError)):
\* the exceptions the decorator retries; _make_request lets no ConnectionError out.
retried(result) ==
    result.kind = "raise" /\ result.class \in {"TogglRateLimitError", "ConnectionError"}

\* if time_since_last_request < 1.0
must_sleep(time_since_last_request) == time_since_last_request < TicksPerSecond

\* sleep_time of a throttle that never sleeps
sleep_time_none(time_since_last_request) == 0

\* sleep_time = 1.0 - time_since_last_request
sleep_time(time_since_last_request) == TicksPerSecond - time_since_last_request

\* A caller invokes _make_request (first try).
make_request(t) ==
    /\ thread[t].pc = "idle"
    /\ thread' = [thread EXCEPT ![t] = [IdleThread EXCEPT !.pc = "throttle", !.tries = 1,
                                                         !.attempts = 1]]
    /\ UNCHANGED <<now, last_request_time, sent>>
    /\ UNCHANGED <<log, tables, today, clock, proc, remote, config, client>>

\* _throttle_request up to the sleep: current_time = time.time(), the comparison.
throttle_request(t) ==
    /\ thread[t].pc = "throttle"
    /\ LET current_time == now
           time_since_last_request == current_time - last_request_time
       IN  thread' = [thread EXCEPT ![t] =
             IF must_sleep(time_since_last_request)
             THEN [@ EXCEPT !.pc = "sleep",
                            !.wake = current_time + sleep_time(time_since_last_request)]
             ELSE [@ EXCEPT !.pc = "stamp"]]
    /\ UNCHANGED <<now, last_request_time, sent>>
    /\ UNCHANGED <<log, tables, today, clock, proc, remote, config, client>>

\* time.sleep returns once the time slept has passed.
wake_up(t) ==
    /\ thread[t].pc = "sleep"
    /\ now >= thread[t].wake
    /\ thread' = [thread EXCEPT ![t].pc = "stamp"]
    /\ UNCHANGED <<now, last_request_time, sent>>
    /\ UNCHANGED <<log, tables, today, clock, proc, remote, config, client>>

\* self._last_request_time = time.time(), then self.session.request(...).
send_request(t) ==
    /\ thread[t].pc = "stamp"
    /\ last_request_time' = now
    /\ sent' = Append(sent, now)
    /\ thread' = [thread EXCEPT ![t].pc = "wait"]
    /\ UNCHANGED now
    /\ UNCHANGED <<log, tables, today, clock, proc, remote, config, client>>

\* The response: the attempt returns or raises; the decorator calls _make_request again
\* when the exception is one it retries and fewer than max_tries tries were made.
receive(t, status) ==
    /\ thread[t].pc = "wait"
    /\ \E result \in attempt_results(status) :
          thread' = [thread EXCEPT ![t] =
             IF retried(result) /\ thread[t].tries < max_tries
             THEN [@ EXCEPT !.pc = "throttle", !.tries = @ + 1, !.attempts = @ + 1,
                            !.status = status]
             ELSE [@ EXCEPT !.pc = "idle", !.out = result, !.status = status]]
    /\ UNCHANGED <<now, last_request_time, sent>>
    /\ UNCHANGED <<log, tables, today, clock, proc, remote, config, client>>

\* Time passes.
Tick ==
    /\ now < MaxTime
    /\ now' = now + 1
    /\ UNCHANGED <<last_request_time, sent, thread>>
    /\ UNCHANGED <<log, tables, today, clock, proc, remote, config, client>>

----------------------------------------------------------------------------
(* The client's time-entry call: get_workspace_time_entries_with_clients,  *)
(* cut at its remote requests. The call is at position pc:                 *)
(*   mapping  - about to call _build_client_project_mapping                *)
(*   page     - in the page loop, about to request a page                  *)
(*   fallback - a page request failed, about to build the mapping again    *)
(*   users    - about to request the workspace users                       *)
(*   user     - in the loop over the users                                 *)

cache_ttl == 300
page_size == 50

\* seconds that pass between two calls, and the time the cache is followed for
CacheWaits == {100, 200}
MaxCacheTime == 700

\* A record of the remote API; ref is the client of a project and the project of a time
\* entry (0 for none), val the name of a client.
Remote(id, val, ref, workspace_id, user_id) ==
    [id |-> id, val |-> val, ref |-> ref, workspace_id |-> workspace_id,
     user_id |-> user_id]

\* the user the API token belongs to
Me == 1

\* when and from which lists a map was built
NoSource == [built |-> 0, projects |-> <<>>, clients |-> <<>>]

NoCall == [pc |-> "idle", ws |-> 0, path |-> "none", page |-> 0, requested |-> <<>>,
           groups |-> 0, client_mapping |-> <<>>, source |-> NoSource, users |-> <<>>,
           skipped |-> 0, entries |-> <<>>, out |-> "none"]

\* __init__: _client_project_cache = {}, _cache_timestamp = 0. built records, for each
\* cached map, when and from which lists it was built.
NewClient == [client_project_cache |-> <<>>, cache_timestamp |-> 0, built |-> <<>>,
              call |-> NoCall]

\* GET /workspaces/{id}/projects, /clients, /users
get_workspace_projects(ws) == SelectSeq(remote["projects"], LAMBDA r : r.workspace_id = ws)
get_workspace_clients(ws) == SelectSeq(remote["clients"], LAMBDA r : r.workspace_id = ws)
get_workspace_users(ws) == SelectSeq(remote["members"], LAMBDA r : r.workspace_id = ws)

\* the reporting endpoint of a workspace: the entries of all its users
workspace_time_entries(ws) ==
    SelectSeq(remote["time_entries"], LAMBDA r : r.workspace_id = ws)

\* GET /me/time_entries: the entries of the token's user, whatever the workspace
my_time_entries == SelectSeq(remote["time_entries"], LAMBDA r : r.user_id = Me)

NoClient == [client_id |-> 0, client_name |-> "No Client"]

\* a mapping that trusts the project's client_id without looking the client up
project_client_mapping_unchecked(projects, clients) ==
    [id \in {projects[i].id : i \in 1..Len(projects)} |->
        LET project == projects[CHOOSE i \in 1..Len(projects) : projects[i].id = id]
        IN  IF project.ref # 0
            THEN [client_id |-> project.ref, client_name |-> "Unknown"]
            ELSE NoClient]

\* _build_client_project_mapping, the loop over the projects: the client of the
\* project when the project names one that is among the clients, else None/'No Client'.
project_client_mapping(projects, clients) ==
    LET client_lookup == [c \in {clients[i].id : i \in 1..Len(clients)} |->
                             clients[CHOOSE i \in 1..Len(clients) : clients[i].id = c]]
    IN  [id \in {projects[i].id : i \in 1..Len(projects)} |->
            LET project == projects[CHOOSE i \in 1..Len(projects) : projects[i].id = id]
                client_id == project.ref
            IN  IF client_id # 0 /\ client_id \in DOMAIN client_lookup
                THEN [client_id |-> client_lookup[client_id].id,
                      client_name |-> client_lookup[client_id].val]
                ELSE NoClient]

\* the cache test of _build_client_project_mapping
cache_valid(ws, current_time) ==
    /\ ws \in DOMAIN client.client_project_cache
    /\ current_time - client.cache_timestamp < cache_ttl * TicksPerSecond

TimeEntry(entry, client_info) ==
    [id |-> entry.id, user_id |-> entry.user_id, project_id |-> entry.ref,
     workspace_id |-> entry.workspace_id, client_id |-> client_info.client_id,
     client_name |-> client_info.client_name]

\* the page loop's client_mapping.get(project_id, {None, 'No Client'})
report_entry(entry, client_mapping) ==
    TimeEntry(entry, IF entry.ref \in DOMAIN client_mapping
                     THEN client_mapping[entry.ref] ELSE NoClient)

\* the fallback's "if entry.project_id and entry.project_id in client_mapping"
fallback_entry(entry, client_mapping) ==
    TimeEntry(entry, IF entry.ref # 0 /\ entry.ref \in DOMAIN client_mapping
                     THEN client_mapping[entry.ref] ELSE NoClient)

Map(f(_), seq) == [i \in 1..Len(seq) |-> f(seq[i])]

\* a page loop that numbers the rows of page 1 from page_size + 1
first_row_number_next_page(page) == (page * page_size) + 1

\* params['first_row_number'] = ((page - 1) * page_size) + 1
first_row_number(page) == ((page - 1) * page_size) + 1

\* The call is entered; the date formats are valid.
get_workspace_time_entries_with_clients(ws) ==
    /\ client.call.pc = "idle"
    /\ client' = [client EXCEPT !.call = [NoCall EXCEPT !.pc = "mapping", !.ws = ws,
                                                        !.path = "reports", !.page = 1]]
    /\ UNCHANGED <<now, last_request_time, sent, thread>>
    /\ UNCHANGED <<log, tables, today, clock, proc, remote, config>>

raise(call) == [call EXCEPT !.pc = "idle", !.out = "raised", !.entries = <<>>]
return(call) == [call EXCEPT !.pc = "idle", !.out = "returned"]

\* _build_client_project_mapping, at the start of the call and of the fallback: the
\* cached map when the cache test passes, else the two requests (whose failure
\* propagates), the new map, the cache entry and the timestamp.
build_client_project_mapping(ok) ==
    /\ client.call.pc \in {"mapping", "fallback"}
    /\ LET call == client.call
           ws == call.ws
           current_time == now
           next == IF call.pc = "mapping" THEN "page" ELSE "users"
           projects == get_workspace_projects(ws)
           clients == get_workspace_clients(ws)
           fresh == project_client_mapping(projects, clients)
           source == [built |-> current_time, projects |-> projects, clients |-> clients]
       IN  IF cache_valid(ws, current_time)
           THEN client' = [client EXCEPT !.call =
                   [call EXCEPT !.pc = next,
                                !.client_mapping = client.client_project_cache[ws],
                                !.source = client.built[ws]]]
           ELSE IF ok
           THEN client' = [client EXCEPT
                   !.client_project_cache =
                       [w \in DOMAIN @ \cup {ws} |-> IF w = ws THEN fresh ELSE @[w]],
                   !.built = [w \in DOMAIN @ \cup {ws} |-> IF w = ws THEN source ELSE @[w]],
                   !.cache_timestamp = current_time,
                   !.call = [call EXCEPT !.pc = next, !.client_mapping = fresh,
                                         !.source = source]]
           ELSE client' = [client EXCEPT !.call = raise(call)]
    /\ UNCHANGED <<now, last_request_time, sent, thread>>
    /\ UNCHANGED <<log, tables, today, clock, proc, remote, config>>

\* One turn of the page loop: the request, the entries of the page, the two exits. The
\* endpoint answers with any number of report groups; the workspace's entries are
\* those of the groups of its first page. A failed request starts the fallback.
request_page(ok, groups) ==
    /\ client.call.pc = "page"
    /\ LET call == client.call
           sent_call == [call EXCEPT !.requested = Append(@, first_row_number(call.page)),
                                     !.groups = IF ok THEN groups ELSE 0]
           time_entries == IF call.page = 1 /\ groups > 0
                           THEN workspace_time_entries(call.ws) ELSE <<>>
           listed == [sent_call EXCEPT
                        !.entries = @ \o Map(LAMBDA e : report_entry(e, call.client_mapping),
                                             time_entries)]
       IN  client' = [client EXCEPT !.call =
              IF ~ok THEN [sent_call EXCEPT !.pc = "fallback", !.path = "fallback",
                                            !.entries = <<>>]
              ELSE IF groups < page_size THEN return(listed)
              ELSE IF call.page + 1 > MaxPages
                   THEN return([listed EXCEPT !.page = @ + 1])
              ELSE [listed EXCEPT !.page = @ + 1]]
    /\ UNCHANGED <<now, last_request_time, sent, thread>>
    /\ UNCHANGED <<log, tables, today, clock, proc, remote, config>>

\* _get_time_entries_fallback_with_clients after the mapping: the workspace users,
\* whose request's failure propagates.
request_users(ok) ==
    /\ client.call.pc = "users"
    /\ LET call == client.call
       IN  client' = [client EXCEPT !.call =
              IF ok THEN [call EXCEPT !.pc = "user", !.users = get_workspace_users(call.ws)]
              ELSE raise(call)]
    /\ UNCHANGED <<now, last_request_time, sent, thread>>
    /\ UNCHANGED <<log, tables, today, clock, proc, remote, config>>

\* One turn of the loop over the users: _get_user_time_entries(user['id'], ...), which
\* requests /me/time_entries whatever the user, and the client of each entry; a failed
\* request is skipped. After the last user the entries are returned.
request_user_time_entries(ok) ==
    /\ client.call.pc = "user"
    /\ LET call == client.call
           user_entries == Map(LAMBDA e : fallback_entry(e, call.client_mapping),
                               my_time_entries)
       IN  client' = [client EXCEPT !.call =
              IF call.users = <<>> THEN return(call)
              ELSE IF ok THEN [call EXCEPT !.users = Tail(@),
                                           !.entries = @ \o user_entries]
              ELSE [call EXCEPT !.users = Tail(@), !.skipped = @ + 1]]
    /\ UNCHANGED <<now, last_request_time, sent, thread>>
    /\ UNCHANGED <<log, tables, today, clock, proc, remote, config>>

\* Time passes between two calls.
Wait(seconds) ==
    /\ client.call.pc = "idle"
    /\ now + seconds * TicksPerSecond <= MaxCacheTime * TicksPerSecond
    /\ now' = now + seconds * TicksPerSecond
    /\ UNCHANGED <<last_request_time, sent, thread, client>>
    /\ UNCHANGED <<log, tables, today, clock, proc, remote, config>>

----------------------------------------------------------------------------
(* Initial states.                                                         *)

EmptyTables == [k \in EntityKinds |-> <<>>]

Record(id, val, ref) == [id |-> id, val |-> val, ref |-> ref]

\* one client, one project of that client, one member, one time entry on the project
SmallWorkspace ==
    [clients |-> <<Record(1, 1, 0)>>, projects |-> <<Record(1, 1, 1)>>,
     members |-> <<Record(1, 1, 0)>>, time_entries |-> <<Record(1, 1, 1)>>]

Window(total_days, chunk_size) == [total_days |-> total_days, chunk_size |-> chunk_size]

\* a 90-day window backfilled in 30-day chunks
DefaultWindow == Window(90, 30)

\* A fresh database, idle handlers.
InitService ==
    /\ log = <<>>
    /\ tables = EmptyTables
    /\ today = Day0
    /\ clock = 1
    /\ proc = [p \in Procs |-> Idle]

\* A fresh client: _last_request_time = 0.0.
InitTransport ==
    /\ now = 0
    /\ last_request_time = 0
    /\ sent = <<>>
    /\ thread = [t \in Threads |-> IdleThread]
    /\ client = NewClient

Init ==
    /\ InitService
    /\ InitTransport
    /\ remote = SmallWorkspace
    /\ config = DefaultWindow

running_rows(ws) ==
    {i \in 1..Len(log) : log[i].workspace_id = ws /\ log[i].status = "running"}

----------------------------------------------------------------------------
(* SpecStart: two handlers serve POST /api/sync/start requests for the     *)
(* client list at the same time.                                           *)

StartNext ==
    \/ \E p \in Procs, ws \in Workspaces :
          Admitted(MaxLogStart, 1) /\ start_sync(p, ws, "clients", 0)
    \/ \E p \in Procs : Begin(p)
    \/ \E p \in Procs : Fetch(p, {0}, {0})
    \/ \E p \in Procs : Stage(p)
    \/ \E p \in Procs : Commit(p)
    \/ \E p \in Procs : Finish(p)

SpecStart == Init /\ [][StartNext]_vars

\* C1: the running-sync check of start_sync and the insertion of the running row are
\* one atomic step, so that two concurrent start requests for a workspace never both
\* pass the check: a workspace never has two running attempts created by start.
C1_StartCheckAtomic ==
    \A ws \in Workspaces : Cardinality(running_rows(ws)) <= 1

----------------------------------------------------------------------------
(* SpecConflict: handler 1 serves start requests, handler 2 force-sync     *)
(* requests (full_sync without the check); either may be killed.           *)

ConflictNext ==
    \/ Admitted(MaxLogConflict, 1) /\ start_sync(1, 1, "clients", 0)
    \/ Admitted(MaxLogConflict, 4) /\ force_full_sync(2, 1, 0)
    \/ \E p \in Procs : Begin(p)
    \/ \E p \in Procs : Fetch(p, {0}, {0})
    \/ \E p \in Procs : Stage(p)
    \/ \E p \in Procs : Commit(p)
    \/ \E p \in Procs : Finish(p)
    \/ \E p \in Procs : Crash(p)

SpecConflict == Init /\ [][ConflictNext]_vars

\* C2: whenever the workspace has a SyncAttempt with status running, whatever its
\* position among the workspace's attempts, a start request for it returns the conflict
\* outcome, issues no remote call and creates no SyncAttempt row.
C2_RunningRejectsStart ==
    [][\A p \in Procs :
          (/\ proc[p].pc = "idle"
           /\ proc'[p] # proc[p]
           /\ proc'[p].op = "start"
           /\ running_rows(proc'[p].ws) # {})
          => (/\ proc'[p].pc = "idle"
              /\ proc'[p].out = "conflict"
              /\ proc'[p].ncalls = 0
              /\ log' = log)]_vars

----------------------------------------------------------------------------
(* SpecChunk: one operator backfills a window with successive              *)
(* safe_chunked_historical_sync calls; a call may be killed, a remote call *)
(* may fail, midnight may pass between or during the calls.                *)

Windows == {Window(90, 30), Window(5, 2)}

ChunksPerCall == {1, 2}

InitChunk ==
    /\ InitService
    /\ InitTransport
    /\ remote = SmallWorkspace
    /\ config \in Windows

\* the rows a call may insert: the metadata rows, one per chunk, one failed row
call_rows(ws, total_days, chunk_size, chunks_per_call) ==
    LET next_chunks == get_next_historical_chunks(ws, total_days, chunk_size,
                                                  chunks_per_call)
    IN  (IF next_chunks.is_first_chunk THEN Len(MetadataPlan) ELSE 0)
        + Len(next_chunks.chunks_to_process) + 1

ChunkNext ==
    \/ \E n \in ChunksPerCall :
          /\ Admitted(MaxLogChunk, call_rows(1, config.total_days, config.chunk_size, n))
          /\ safe_chunked_historical_sync(1, 1, config.total_days, config.chunk_size, n)
    \/ \E p \in Procs : Begin(p)
    \/ \E p \in Procs : Fetch(p, {0}, {0})
    \/ \E p \in Procs : Stage(p)
    \/ \E p \in Procs : Commit(p)
    \/ \E p \in Procs : Finish(p)
    \/ \E p \in Procs : failed_log(p)
    \/ \E p \in Procs : Crash(p)
    \/ NextDay

SpecChunk == InitChunk /\ [][ChunkNext]_vars

\* The chunks of the window, as date ranges counted back from today, that no completed
\* time-entry attempt of the workspace has synced.
uncompleted_chunks(ws, total_days, chunk_size) ==
    {c \in 0..(total_chunks(total_days, chunk_size) - 1) :
        LET r == chunk_range(total_days, chunk_size, c)
        IN  ~ \E i \in 1..Len(log) :
                /\ log[i].workspace_id = ws
                /\ log[i].sync_type = "time_entries"
                /\ log[i].status = "completed"
                /\ log[i].date_range_start = Some(r.start_date)
                /\ log[i].date_range_end = Some(r.end_date)}

\* C3: every safe_chunked_historical_sync call selects its chunks among those that no
\* completed attempt in the log has synced, in ascending index order, passes over no
\* such chunk, and selects one whenever one is left (after two completed chunks of a
\* 90-day window in 30-day chunks, the third call selects chunk 2).
C3_ResumesAtFirstUncompleted ==
    [][\A p \in Procs :
          (/\ proc[p].pc = "idle"
           /\ proc'[p] # proc[p]
           /\ proc'[p].op = "historical")
          => LET selected == proc'[p].next_chunks[1].chunks_to_process
                 open == uncompleted_chunks(proc'[p].ws, config.total_days, config.chunk_size)
             IN  /\ \A k \in 1..Len(selected) : selected[k].chunk_index \in open
                 /\ \A k \in 1..(Len(selected) - 1) :
                       selected[k].chunk_index < selected[k + 1].chunk_index
                 /\ \A c \in open : \A k \in 1..Len(selected) :
                       c < selected[k].chunk_index
                       => \E l \in 1..Len(selected) : selected[l].chunk_index = c
                 /\ open # {} => selected # <<>>]_vars

\* C6: a SyncAttempt row is never removed, its status changes only from running to
\* completed or to failed, and its end timestamp is set exactly when its status is
\* completed or failed.
C6_AttemptLifeCycle ==
    /\ [](\A i \in 1..Len(log) :
            /\ log[i].status \in {"running", "completed", "failed"}
            /\ (log[i].end_time # None) <=> (log[i].status \in {"completed", "failed"}))
    /\ [][/\ Len(log') >= Len(log)
          /\ \A i \in 1..Len(log) :
                \/ log'[i].status = log[i].status
                \/ log[i].status = "running" /\ log'[i].status \in {"completed", "failed"}]_vars

\* C6's case: a call has left completed rows, the failed row of a chunk whose remote
\* call failed and the failed row of the chunk loop, and the next call has a running row.
C6_Witness ==
    /\ \E i \in 1..Len(log) : log[i].status = "completed" /\ log[i].end_time # None
    /\ \E i \in 1..Len(log) :
          log[i].status = "failed" /\ log[i].error_message = "remote call failed"
    /\ \E i \in 1..Len(log) :
          log[i].status = "failed" /\ log[i].error_message = "chunk failed"
    /\ \E i \in 1..Len(log) : log[i].status = "running" /\ log[i].end_time = None

\* C13: over the safe_chunked_historical_sync calls of one backfill, retries of failed
\* chunks included, the metadata (clients, projects, members) is synced in one call only:
\* a call syncs the metadata only if no earlier call has synced it.
C13_MetadataSyncedOnce ==
    [][\A p \in Procs :
          (/\ proc[p].pc = "idle"
           /\ proc'[p] # proc[p]
           /\ proc'[p].op = "historical"
           /\ \E k \in 1..Len(proc'[p].plan) : proc'[p].plan[k].idx = None)
          => ~ \E i \in 1..Len(log) :
                  /\ log[i].workspace_id = proc'[p].ws
                  /\ log[i].sync_type = "members"
                  /\ log[i].status = "completed"]_vars

----------------------------------------------------------------------------
(* SpecUpsert: one handler runs the four entity syncs one after another    *)
(* while the remote data changes; a change is taken at the moment a fetch  *)
(* is about to observe it.                                                 *)

\* the pulls of an entity fetch: none, one or two records, values and parents changing
Pulls ==
    {<<>>, <<Record(1, 1, 0)>>, <<Record(1, 2, 1)>>, <<Record(2, 1, 1)>>,
     <<Record(2, 2, 0), Record(1, 1, 1)>>}

UpsertNext ==
    \/ \E kind \in {"clients", "projects", "members"} :
          Admitted(MaxLogUpsert, 1) /\ start_sync(1, 1, kind, 0)
    \/ Admitted(MaxLogUpsert, 1) /\ start_sync(1, 1, "time_entries", 1)
    \/ \E p \in Procs : Begin(p)
    \/ \E p \in Procs : Fetch(p, {0}, {2})
    \/ \E p \in Procs : Stage(p)
    \/ \E p \in Procs : Commit(p)
    \/ \E p \in Procs : Finish(p)
    \/ \E p \in Procs :
          proc[p].pc = "fetch" /\ RemoteChange(Current(p).kind, Pulls)

SpecUpsert == Init /\ [][UpsertNext]_vars

ids(records) == {records[k].id : k \in 1..Len(records)}
toggl_ids(table) == {table[i].toggl_id : i \in 1..Len(table)}
distinct_ids(records) ==
    \A k, l \in 1..Len(records) : records[k].id = records[l].id => k = l

\* the local id of the row a pulled record's parent has in the store, 0 when the record
\* names no parent or the parent has no row
parent_row_id(kind, rec) ==
    IF kind \notin {"projects", "time_entries"} \/ rec.ref = 0 THEN 0
    ELSE LET parents == tables[IF kind = "projects" THEN "clients" ELSE "projects"]
         IN  IF \E i \in 1..Len(parents) : parents[i].toggl_id = rec.ref
             THEN (CHOOSE row \in {parents[i] : i \in 1..Len(parents)} :
                      row.toggl_id = rec.ref).id
             ELSE 0

\* C5: an entity sync that pulls P, a list with distinct external ids, and commits over
\* the store S leaves exactly one row per id of ids(S) \cup ids(P), the rows of P's ids
\* carrying P's values and the other rows and tables untouched, and its attempt
\* records added = |ids(P) \ ids(S)|, updated = |ids(P) \cap ids(S)|, processed = |P|.
C5_UpsertResult ==
    [][\A p \in Procs :
          LET kind == Current(p).kind
              P == proc[p].pull
              S == tables[kind]
              T == tables'[kind]
              row == log'[proc[p].row]
          IN  /\ (proc[p].pc = "commit" /\ proc'[p].pc = "finish" /\ distinct_ids(P))
                 => /\ toggl_ids(T) = toggl_ids(S) \cup ids(P)
                    /\ Cardinality(toggl_ids(T)) = Len(T)
                    /\ \A k \in 1..Len(P) : \E i \in 1..Len(T) :
                          /\ T[i].toggl_id = P[k].id
                          /\ T[i].val = P[k].val
                          /\ T[i].ref = parent_row_id(kind, P[k])
                    /\ \A i \in 1..Len(S) :
                          S[i].toggl_id \notin ids(P) => \E j \in 1..Len(T) : T[j] = S[i]
                    /\ \A other \in EntityKinds \ {kind} : tables'[other] = tables[other]
                    /\ proc[p].staged.added = Cardinality(ids(P) \ toggl_ids(S))
                    /\ proc[p].staged.updated = Cardinality(ids(P) \cap toggl_ids(S))
              /\ (proc[p].pc = "finish" /\ proc'[p] # proc[p] /\ distinct_ids(P))
                 => /\ row.status = "completed"
                    /\ row.records_added = proc[p].staged.added
                    /\ row.records_updated = proc[p].staged.updated
                    /\ row.records_processed = Len(P)
                    /\ row.records_processed = row.records_added + row.records_updated
                    /\ tables' = tables]_vars

\* C5's case: a completed sync that added one row and updated another.
C5_Witness ==
    \E i \in 1..Len(log) :
        /\ log[i].status = "completed"
        /\ log[i].records_added = 1
        /\ log[i].records_updated = 1
        /\ \E kind \in EntityKinds : Len(tables[kind]) = 2 /\ log[i].sync_type = kind

\* C31: sync_projects completes when a pulled project names a client that has no local
\* row, the project being stored with no client; and a sync_projects that runs once
\* sync_clients has stored the client sets the project's client to that client's row.
C31_ProjectOfUnsyncedClient ==
    [][\A p \in Procs :
          LET P == proc[p].pull
              clients == tables["clients"]
              T == tables'["projects"]
              known(rec) == {i \in 1..Len(clients) :
                               rec.ref # 0 /\ clients[i].toggl_id = rec.ref}
          IN  (proc[p].pc \in {"stage", "commit", "finish"} /\ proc'[p] # proc[p]
               /\ Current(p).kind = "projects")
              => /\ proc[p].pc = "stage" => proc'[p].pc = "commit"
                 /\ proc[p].pc = "commit"
                    => /\ proc'[p].pc = "finish"
                       /\ \A k \in 1..Len(P) : \E i \in 1..Len(T) :
                             /\ T[i].toggl_id = P[k].id
                             /\ known(P[k]) = {} => T[i].ref = 0
                             /\ \A c \in known(P[k]) : T[i].ref = clients[c].id
                 /\ proc[p].pc = "finish"
                    => log'[proc[p].row].status = "completed"]_vars

\* C31's case: a first sync_projects added the project while the clients table was
\* empty, sync_clients then stored the client (external id 1, local id 2), and a
\* second sync_projects has set the project's client to the client's row.
C31_Witness ==
    /\ Len(log) = 3 /\ \A i \in 1..3 : log[i].status = "completed"
    /\ log[1].sync_type = "projects" /\ log[1].records_added = 1
    /\ log[2].sync_type = "clients" /\ log[2].records_added = 2
    /\ log[3].sync_type = "projects" /\ log[3].records_updated = 1
    /\ Len(tables["projects"]) = 1
    /\ \E c \in 1..Len(tables["clients"]) :
          /\ tables["clients"][c].toggl_id = 1
          /\ tables["clients"][c].id = 2
          /\ tables["projects"][1].ref = 2


\* the rows of a table with a given external id
rows_of(table, toggl_id) == {i \in 1..Len(table) : table[i].toggl_id = toggl_id}

\* C38: when a pull lists an external id more than once, the commit of the sync goes
\* through, the sync goes on to its completion, and the table holds exactly one row for
\* each id of the pull.
C38_RepeatedIdReconciledOnce ==
    [][\A p \in Procs :
         (/\ proc[p].pc = "commit" /\ proc'[p] # proc[p]
          /\ \E k, l \in 1..Len(proc[p].pull) :
                k # l /\ proc[p].pull[k].id = proc[p].pull[l].id)
         => /\ proc'[p].pc = "finish"
            /\ \A k \in 1..Len(proc[p].pull) :
                  Cardinality(rows_of(tables'[Current(p).kind], proc[p].pull[k].id)) = 1]_vars

----------------------------------------------------------------------------
(* SpecRepeat: one handler runs entity syncs one after another against     *)
(* remote data that does not change; midnight may pass between the runs.   *)

Datasets ==
    {SmallWorkspace,
     [clients |-> <<Record(1, 1, 0), Record(2, 1, 0)>>,
      projects |-> <<Record(1, 1, 2), Record(2, 2, 0)>>,
      members |-> <<>>,
      time_entries |-> <<Record(2, 1, 1), Record(1, 2, 0)>>]}

InitRepeat ==
    /\ InitService
    /\ InitTransport
    /\ remote \in Datasets
    /\ config = DefaultWindow

RepeatNext ==
    \/ \E kind \in {"clients", "projects", "members"} :
          Admitted(MaxLogRepeat, 1) /\ start_sync(1, 1, kind, 0)
    \/ Admitted(MaxLogRepeat, 1) /\ start_sync(1, 1, "time_entries", 1)
    \/ \E p \in Procs : Begin(p)
    \/ \E p \in Procs : Fetch(p, {0}, {})
    \/ \E p \in Procs : Stage(p)
    \/ \E p \in Procs : Commit(p)
    \/ \E p \in Procs : Finish(p)
    \/ NextDay

SpecRepeat == InitRepeat /\ [][RepeatNext]_vars

\* the rows of a table without their refresh stamps
unstamped(table) ==
    [i \in 1..Len(table) |->
        [id |-> table[i].id, toggl_id |-> table[i].toggl_id, val |-> table[i].val,
         ref |-> table[i].ref, workspace_id |-> table[i].workspace_id]]

\* the handler's entity sync directly follows a completed run of the same sync
repeated(p) ==
    /\ proc[p].row > 1
    /\ log[proc[p].row - 1].status = "completed"
    /\ log[proc[p].row - 1].sync_type = Current(p).kind
    /\ log[proc[p].row - 1].workspace_id = proc[p].ws

\* C4: an entity sync run again right after a completed run of it, the remote data
\* being the same, commits, leaves every table with the same rows apart from the refresh
\* stamps, and reports added = 0 and updated = processed = the number of pulled records.
C4_RepeatIsIdempotent ==
    [][\A p \in Procs :
          /\ (proc[p].pc = "commit" /\ proc'[p] # proc[p] /\ repeated(p))
             => /\ proc'[p].pc = "finish"
                /\ \A kind \in EntityKinds : unstamped(tables'[kind]) = unstamped(tables[kind])
          /\ (proc[p].pc = "finish" /\ proc'[p] # proc[p] /\ repeated(p))
             => /\ log'[proc[p].row].status = "completed"
                /\ log'[proc[p].row].records_added = 0
                /\ log'[proc[p].row].records_updated = Len(proc[p].pull)
                /\ log'[proc[p].row].records_processed = Len(proc[p].pull)]_vars

\* C4's case: three completed runs of one sync in a row, the last two updating two rows
\* each, one of them on the next day.
C4_Witness ==
    /\ Len(log) = 3
    /\ today > Day0
    /\ \A i \in 1..3 : log[i].status = "completed" /\ log[i].sync_type = "time_entries"
    /\ log[1].records_added = 2
    /\ \A i \in 2..3 : log[i].records_added = 0 /\ log[i].records_updated = 2

----------------------------------------------------------------------------
(* SpecBudget: one handler serves time-entry, full and force syncs over    *)
(* windows of any length and calls of safe_chunked_historical_sync for one *)
(* 30-day chunk, the reporting endpoint serving few or many pages or       *)
(* failing, the workspace having no or many members.                       *)

BudgetDays == {0, 30, 317, 367}
FullPages == {0, 28}
MemberCounts == {30}

\* Free plan: 30 requests/hour
HourlyBudget == 30

InitBudget ==
    /\ InitService
    /\ InitTransport
    /\ remote = [SmallWorkspace EXCEPT !["time_entries"] = <<>>]
    /\ config = DefaultWindow

BudgetNext ==
    \/ \E sync_type \in {"time_entries", "time_entries_only", "full"}, days \in BudgetDays :
          /\ Admitted(MaxLogBudget, Len(sync_plan(sync_type, days)))
          /\ start_sync(1, 1, sync_type, days)
    \/ \E days \in BudgetDays : Admitted(MaxLogBudget, 4) /\ force_full_sync(1, 1, days)
    \/ /\ Admitted(MaxLogBudget, call_rows(1, config.total_days, config.chunk_size, 1))
       /\ safe_chunked_historical_sync(1, 1, config.total_days, config.chunk_size, 1)
    \/ \E p \in Procs : Begin(p)
    \/ \E p \in Procs : Fetch(p, FullPages, MemberCounts)
    \/ \E p \in Procs : Stage(p)
    \/ \E p \in Procs : Commit(p)
    \/ \E p \in Procs : Finish(p)
    \/ \E p \in Procs : failed_log(p)

SpecBudget == InitBudget /\ [][BudgetNext]_vars

\* the least k with k * b >= a
Ceiling(a, b) == CHOOSE k \in 0..a : k * b >= a /\ (k = 0 \/ (k - 1) * b < a)

\* the estimate of a request: the base cost of its kind plus, for a positive day count,
\* min(50, max(1, ceil(3 * d / 50))) pagination calls
request_estimate(sync_type, d) ==
    (IF sync_type = "full" THEN 6 ELSE 3)
    + (IF d > 0 THEN Min(50, Max(1, Ceiling(3 * d, 50))) ELSE 0)

over_estimate(request) ==
    /\ request.op \in {"start", "force"}
    /\ request.sync_type \in {"time_entries", "time_entries_only", "full"}
    /\ request.out # "conflict"
    /\ request_estimate(request.sync_type, request.days) > 25

\* C9: a time-entry, time-entries-only or full sync request whose estimated call count
\* exceeds 25 is rejected: no remote call is issued for it, no SyncAttempt row is
\* created for it and the entity store stays as it is.
C9_OverEstimateRejected ==
    [][\A p \in Procs :
          over_estimate(proc'[p])
          => /\ proc'[p].pc \in {"begin", "idle"}
             /\ proc'[p].pc = "idle" => proc'[p].out = "rejected"
             /\ proc'[p].ncalls = 0
             /\ proc'[p].logs = <<>>
             /\ log' = log
             /\ tables' = tables]_vars

\* C9's case: after other syncs have run, a request is rejected at the first day count
\* its estimate exceeds 25 for (367 for time entries, 317 for a full sync).
C9_Witness ==
    /\ Len(log) > 0
    /\ proc[1].out = "rejected"
    /\ \/ proc[1].sync_type = "time_entries_only" /\ proc[1].days = 367
       \/ proc[1].sync_type = "full" /\ proc[1].days = 317

\* C10: a sync invocation that has passed the pre-flight estimate issues at most 30
\* remote calls, whatever the remote API returns.
C10_WithinHourlyBudget ==
    \A p \in Procs : proc[p].ncalls <= HourlyBudget

----------------------------------------------------------------------------
(* SpecThrottle: one caller issues requests one after another through one  *)
(* client; a request is answered, fails, or is rate limited and retried.   *)

\* The first request is made any time up to a second and a tick after the client was
\* built.
InitThrottle ==
    /\ InitService
    /\ remote = SmallWorkspace
    /\ config = DefaultWindow
    /\ now \in 0..(TicksPerSecond + 1)
    /\ last_request_time = 0
    /\ sent = <<>>
    /\ thread = [t \in Threads |-> IdleThread]
    /\ client = NewClient

\* the calls of _make_request made so far and not yet sent
in_throttle == {t \in Threads : thread[t].pc \in {"throttle", "sleep", "stamp"}}

ThrottleNext ==
    \/ Len(sent) + Cardinality(in_throttle) < MaxRequests /\ make_request(1)
    \/ throttle_request(1)
    \/ wake_up(1)
    \/ send_request(1)
    \/ \E status \in Statuses :
          (status = "rate_limited" => Len(sent) < MaxRequests) /\ receive(1, status)
    \/ Tick

SpecThrottle == InitThrottle /\ [][ThrottleNext]_vars

\* C7: the requests one caller sends one after another through one client, retries
\* included, start at least one second apart, so N of them take at least N - 1 seconds;
\* and a request is never dropped: a call leaves the throttle only by being sent.
C7_SequentialSpacing ==
    /\ [](/\ \A k \in 1..(Len(sent) - 1) : sent[k + 1] - sent[k] >= TicksPerSecond
          /\ Len(sent) > 0 => sent[Len(sent)] - sent[1] >= (Len(sent) - 1) * TicksPerSecond)
    /\ [][\A t \in Threads :
            (thread[t].pc \in {"throttle", "sleep", "stamp"} /\ thread'[t] # thread[t])
            => \/ thread'[t].pc \in {"sleep", "stamp"} /\ sent' = sent
               \/ thread'[t].pc = "wait" /\ sent' = Append(sent, now)]_vars

\* C7's case: three requests sent, the last one a second retry that the throttle has
\* held back, by sleeping, until a second after the one before.
C7_Witness ==
    /\ Len(sent) >= 3
    /\ thread[1].tries = max_tries
    /\ thread[1].pc = "wait"
    /\ thread[1].wake = sent[Len(sent)]
    /\ sent[Len(sent)] - sent[Len(sent) - 1] = TicksPerSecond

\* C21: an HTTP attempt that ends in a 429, in a 5xx status or in a network failure is
\* made again with backoff: the error of such an attempt reaches the caller only when
\* max_tries attempts have been made.
C21_RetryableFailuresRetried ==
    [][\A t \in Threads :
         (/\ thread[t].pc = "wait" /\ thread'[t].pc = "idle"
          /\ thread'[t].status \in {"rate_limited", "server_error", "network"})
         => thread'[t].attempts = max_tries]_vars

\* C22: a call whose first HTTP attempt ends in 401 or 403, 402, 410, another 4xx or a
\* success body that is not JSON raises its error after exactly one attempt; and no
\* call ever makes more than max_tries attempts.
C22_OtherFailuresNotRetried ==
    /\ [](\A t \in Threads : thread[t].attempts <= max_tries)
    /\ [][\A t \in Threads :
            (/\ thread[t].pc = "wait" /\ thread[t].attempts = 1
             /\ thread'[t] # thread[t]
             /\ thread'[t].status \in {"unauthorized", "forbidden", "payment_required",
                                       "gone", "client_error", "malformed"})
            => /\ thread'[t].pc = "idle"
               /\ thread'[t].out.kind = "raise"
               /\ thread'[t].attempts = 1
               /\ sent' = sent]_vars

\* C22's case: the only request of a call was answered by a body that is not JSON, and
\* the call has raised after that one attempt.
C22_Witness ==
    /\ thread[1].pc = "idle"
    /\ thread[1].status = "malformed"
    /\ thread[1].out.kind = "raise"
    /\ thread[1].attempts = 1
    /\ Len(sent) = 1

\* the kind of outcome a status is
outcome_kind(status) ==
    CASE status \in {"ok", "empty"} -> "Success"
      [] status = "rate_limited" -> "RateLimited"
      [] status \in {"unauthorized", "forbidden"} -> "AuthFailed"
      [] status = "payment_required" -> "PaymentRequired"
      [] status = "gone" -> "EndpointRetired"
      [] status = "client_error" -> "ClientError"
      [] status = "server_error" -> "ServerError"
      [] status = "network" -> "TransportError"
      [] OTHER -> "DecodeError"

\* C23: a call returns the decoded body on success and otherwise raises an error fixed
\* by the outcome of its last attempt, each kind of outcome giving an error the caller
\* can tell apart from the errors of every other kind: what the call gives its caller
\* is nothing an outcome of another kind can give.
C23_OutcomeFixesErrorKind ==
    [][\A t \in Threads :
         (thread[t].pc = "wait" /\ thread'[t].pc = "idle")
         => /\ outcome_kind(thread'[t].status) = "Success"
                <=> thread'[t].out.kind = "return"
            /\ \A other \in Statuses :
                  outcome_kind(other) # outcome_kind(thread'[t].status)
                  => thread'[t].out \notin attempt_results(other)]_vars

----------------------------------------------------------------------------
(* SpecThreads: two threads issue requests through the same client.        *)

ThreadsNext ==
    \/ \E t \in Threads :
          Len(sent) + Cardinality(in_throttle) < MaxRequests /\ make_request(t)
    \/ \E t \in Threads : throttle_request(t)
    \/ \E t \in Threads : wake_up(t)
    \/ \E t \in Threads : send_request(t)
    \/ \E t \in Threads : receive(t, "ok")
    \/ Tick

SpecThreads == InitThrottle /\ [][ThreadsNext]_vars

\* C8: whatever the interleaving of the threads calling through one client, no two of
\* its HTTP requests start less than one second apart.
C8_ConcurrentSpacing ==
    \A k, l \in 1..Len(sent) : k < l => sent[l] - sent[k] >= TicksPerSecond

----------------------------------------------------------------------------
(* SpecPages: calls of get_workspace_time_entries_with_clients for one     *)
(* workspace, against a reporting endpoint that answers each page request  *)
(* with an empty, a short or a full page, or fails.                        *)

\* Two workspaces. The first has a client, a project of that client, a project without
\* client, a project of a client that is not among the workspace's clients, and two
\* users with entries on the projects and on no project; the token's user is also the
\* only user of the second, with an entry there.
ClientWorkspace ==
    [clients |-> <<Remote(1, "Acme", 0, 1, 0), Remote(2, "Globex", 0, 2, 0)>>,
     projects |-> <<Remote(1, "p", 1, 1, 0), Remote(2, "p", 0, 1, 0),
                    Remote(3, "p", 2, 1, 0), Remote(4, "p", 2, 2, 0)>>,
     members |-> <<Remote(1, "u", 0, 1, 1), Remote(2, "u", 0, 1, 2),
                   Remote(1, "u", 0, 2, 1)>>,
     time_entries |-> <<Remote(1, "e", 1, 1, 1), Remote(2, "e", 2, 1, 2),
                        Remote(3, "e", 3, 1, 2), Remote(4, "e", 0, 1, 1),
                        Remote(5, "e", 4, 2, 1)>>]

InitClient ==
    /\ InitService
    /\ InitTransport
    /\ remote = ClientWorkspace
    /\ config = DefaultWindow

PageGroups == {0, page_size - 1, page_size}

\* the steps of a call that has been entered
PagesStep ==
    \/ \E ok \in BOOLEAN : build_client_project_mapping(ok)
    \/ \E ok \in BOOLEAN, groups \in PageGroups : request_page(ok, groups)
    \/ \E ok \in BOOLEAN : request_users(ok)
    \/ \E ok \in BOOLEAN : request_user_time_entries(ok)

PagesNext ==
    \/ get_workspace_time_entries_with_clients(1)
    \/ PagesStep

SpecPages == InitClient /\ [][PagesNext]_vars

\* a call that has been entered goes on: every request is answered or fails
SpecPagesFair == SpecPages /\ WF_vars(PagesStep)

\* C24: whatever the reporting endpoint answers, the call requests the pages with
\* first_row_number 1, 51, 101, ... in order, requests no page after a page of fewer
\* than page_size rows, makes at most MaxPages page requests, and comes to an end.
C24_PageLoopBoundedAndOrdered ==
    /\ [](/\ Len(client.call.requested) <= MaxPages
          /\ \A k \in 1..Len(client.call.requested) :
                client.call.requested[k] = (k - 1) * page_size + 1)
    /\ [][(/\ Len(client'.call.requested) > Len(client.call.requested)
           /\ client'.call.groups < page_size)
          => client'.call.pc # "page"]_vars
    /\ (client.call.pc # "idle") ~> (client.call.pc = "idle")

\* C24's case: the endpoint has answered every request with a full page, and the call
\* has returned after its MaxPages-th request.
C24_Witness ==
    /\ client.call.pc = "idle" /\ client.call.out = "returned"
    /\ client.call.path = "reports"
    /\ client.call.groups = page_size
    /\ Len(client.call.requested) = MaxPages
    /\ client.call.requested[MaxPages] = 4951

----------------------------------------------------------------------------
(* SpecCache: calls for the two workspaces on one client, minutes apart,   *)
(* while the projects of the first workspace change at the remote.         *)

MaxFullPages == 2

ProjectPulls ==
    {ClientWorkspace.projects,
     [ClientWorkspace.projects EXCEPT ![2] = Remote(2, "p", 1, 1, 0)]}

CacheNext ==
    \/ \E ws \in Workspaces : get_workspace_time_entries_with_clients(ws)
    \/ \E ok \in BOOLEAN : build_client_project_mapping(ok)
    \/ \E ok \in BOOLEAN, groups \in PageGroups :
          (groups = page_size => client.call.page <= MaxFullPages)
          /\ request_page(ok, groups)
    \/ \E ok \in BOOLEAN : request_users(ok)
    \/ \E ok \in BOOLEAN : request_user_time_entries(ok)
    \/ \E seconds \in CacheWaits : Wait(seconds)
    \/ RemoteChange("projects", ProjectPulls)

SpecCache == InitClient /\ [][CacheNext]_vars

\* C25: whatever the calls made on the client, for the other workspace included, the
\* project->client map a call uses was built from the remote API less than cache_ttl
\* seconds before: an older map is not served from the cache.
C25_MapYoungerThanTtl ==
    [][(client.call.pc \in {"mapping", "fallback"} /\ client'.call.pc \in {"page", "users"})
       => now - client'.call.source.built < cache_ttl * TicksPerSecond]_vars

\* the entries of a workspace's user at the remote
user_time_entries(ws, user_id) ==
    {i \in 1..Len(remote["time_entries"]) :
        /\ remote["time_entries"][i].workspace_id = ws
        /\ remote["time_entries"][i].user_id = user_id}

\* C26: when the reporting endpoint has failed and every request of the fallback was
\* answered, the call returns, for each user of the workspace, that user's entries,
\* each entry once, and nothing else.
C26_FallbackReturnsEachMembersEntries ==
    LET call == client.call
        users == get_workspace_users(call.ws)
    IN  (/\ call.pc = "idle" /\ call.out = "returned"
         /\ call.path = "fallback" /\ call.skipped = 0)
        => /\ \A u \in 1..Len(users) :
                \A i \in user_time_entries(call.ws, users[u].id) :
                   Cardinality({k \in 1..Len(call.entries) :
                                   call.entries[k].id = remote["time_entries"][i].id}) = 1
           /\ \A k \in 1..Len(call.entries) :
                /\ call.entries[k].workspace_id = call.ws
                /\ \E u \in 1..Len(users) : call.entries[k].user_id = users[u].id

\* C27: on the reporting path and on the fallback path alike, with the projects and
\* clients being those the map was built from: a returned entry without project, or
\* whose project has no client or a client that is not among the clients, has
\* client_id None and client_name 'No Client'; a returned entry whose project has a
\* client that is among the clients has that client's id and name.
C27_NoClientSentinel ==
    LET call == client.call
        projects == call.source.projects
        clients == call.source.clients
        known(project) == {c \in 1..Len(clients) :
                              project.ref # 0 /\ clients[c].id = project.ref}
    IN  (call.pc = "idle" /\ call.out = "returned")
        => \A k \in 1..Len(call.entries) :
              LET entry == call.entries[k]
              IN  /\ entry.project_id = 0
                     => entry.client_id = 0 /\ entry.client_name = "No Client"
                  /\ \A p \in 1..Len(projects) :
                        projects[p].id = entry.project_id
                        => /\ known(projects[p]) = {}
                              => entry.client_id = 0 /\ entry.client_name = "No Client"
                           /\ \A c \in known(projects[p]) :
                                 /\ entry.client_id = clients[c].id
                                 /\ entry.client_name = clients[c].val

\* C27's case: the fallback has returned an entry on a project of a known client, with
\* that client, and entries without project and of projects without client.
C27_Witness ==
    LET call == client.call
    IN  /\ call.pc = "idle" /\ call.out = "returned" /\ call.path = "fallback"
        /\ \E k \in 1..Len(call.entries) :
              call.entries[k].project_id = 1 /\ call.entries[k].client_name = "Acme"
        /\ \E k \in 1..Len(call.entries) :
              call.entries[k].project_id = 0 /\ call.entries[k].client_id = 0
        /\ \E k \in 1..Len(call.entries) :
              call.entries[k].project_id # 0 /\ call.entries[k].client_id = 0

----------------------------------------------------------------------------
(* SpecComposite: one handler serves full and metadata-only syncs (by      *)
(* start and by force-sync) and safe_chunked_historical_sync calls; any    *)
(* remote call may fail, and the time-entry fallback may return the same   *)
(* entries once per workspace user.                                        *)

CompositeDays == {1, 365}

CompositeNext ==
    \/ \E sync_type \in {"full", "metadata"}, d \in CompositeDays :
          Admitted(MaxLogComposite, 4) /\ start_sync(1, 1, sync_type, d)
    \/ \E d \in CompositeDays : Admitted(MaxLogComposite, 4) /\ force_full_sync(1, 1, d)
    \/ /\ Admitted(MaxLogComposite, 5)
       /\ safe_chunked_historical_sync(1, 1, config.total_days, config.chunk_size, 1)
    \/ \E p \in Procs : Begin(p)
    \/ \E p \in Procs : Fetch(p, {0}, {2})
    \/ \E p \in Procs : Stage(p)
    \/ \E p \in Procs : Commit(p)
    \/ \E p \in Procs : Finish(p)
    \/ \E p \in Procs : failed_log(p)

SpecComposite == Init /\ [][CompositeNext]_vars

\* the sub-syncs of full_sync, in dependency order; sync_metadata runs the first three
SubSyncOrder == <<"clients", "projects", "members", "time_entries">>

composite(p) == proc[p].op \in {"start", "force"} /\ proc[p].sync_type \in {"full", "metadata"}

\* C11: in full_sync and sync_metadata the sub-syncs run in the order clients,
\* projects, members (then time entries for full_sync), one SyncAttempt row per sub-sync
\* started; a sub-sync's row is created and its remote calls are made only when every
\* earlier sub-sync's row is completed, so that after a failed sub-sync the invocation
\* creates no row and makes no remote call.
C11_SubSyncsInOrder ==
    /\ [](\A p \in Procs : composite(p) =>
            LET rows == proc[p].logs
            IN  /\ Len(rows) <= (IF proc[p].sync_type = "full" THEN 4 ELSE 3)
                /\ \A k \in 1..Len(rows) : log[rows[k]].sync_type = SubSyncOrder[k]
                /\ \A k \in 1..(Len(rows) - 1) : log[rows[k]].status = "completed"
                /\ proc[p].pc # "idle" =>
                      \A k \in 1..Len(rows) : log[rows[k]].status # "failed")
    /\ [][\A p \in Procs : (composite(p) /\ proc[p].pc # "idle") =>
            LET rows == proc[p].logs
            IN  /\ Len(log') > Len(log) =>
                      /\ \A k \in 1..Len(rows) : log[rows[k]].status = "completed"
                      /\ Len(log') = Len(log) + 1
                      /\ proc'[p].logs = Append(rows, Len(log'))
                /\ proc'[p].ncalls > proc[p].ncalls =>
                      /\ rows # <<>>
                      /\ log[rows[Len(rows)]].status = "running"
                      /\ log[rows[Len(rows)]].sync_type = Current(p).kind]_vars

\* C11's case: a full sync has completed its clients and projects sub-syncs, its members
\* sub-sync has failed on its remote call, and it has ended with three rows and three
\* remote calls.
C11_Witness ==
    /\ proc[1].pc = "idle" /\ proc[1].sync_type = "full" /\ proc[1].out = "error"
    /\ Len(proc[1].logs) = 3
    /\ log[proc[1].logs[1]].status = "completed"
    /\ log[proc[1].logs[2]].status = "completed"
    /\ log[proc[1].logs[3]].status = "failed"
    /\ proc[1].ncalls = 3

\* the sync_logs list the caller of the handler's last operation has received
delivered(p) == IF proc[p].result # None THEN proc[p].result[1].sync_logs ELSE <<>>

\* C12: when a sub-step of full_sync, of sync_metadata or of the metadata phase of
\* safe_chunked_historical_sync fails, the rows committed by the earlier sub-steps stay
\* unchanged, and the caller receives the list of the per-step outcomes: the rows of the
\* completed steps and the row of the failed step.
C12_FailedStepOutcomesReturned ==
    [][\A p \in Procs :
          (/\ proc[p].pc # "idle"
           /\ proc[p].plan # <<>> /\ Current(p).idx = None
           /\ proc'[p].pc = "idle"
           /\ proc'[p].out \in {"error", "failed"}
           /\ proc[p].logs # <<>>)
          => LET rows == proc[p].logs
             IN  /\ \A k \in 1..(Len(rows) - 1) : log'[rows[k]] = log[rows[k]]
                 /\ proc'[p].logs = rows
                 /\ delivered(p)' = rows]_vars

\* C19: every invocation of a sync operation that does not succeed leaves at least one
\* SyncAttempt row of that invocation with status failed and a non-empty error message.
C19_FailureLeavesFailedRow ==
    [][\A p \in Procs :
          (/\ proc'[p] # proc[p]
           /\ proc'[p].pc = "idle"
           /\ proc'[p].out \in {"error", "failed", "rejected"})
          => \E k \in 1..Len(proc'[p].logs) :
                /\ log'[proc'[p].logs[k]].status = "failed"
                /\ log'[proc'[p].logs[k]].error_message # ""]_vars

\* C20: when a remote call of a sync step ends in an error (a retryable one after its
\* retries, or a non-retryable one), the step makes no further remote call and its
\* SyncAttempt is marked failed with the error's message; a step in which a remote call
\* has ended in an error is never marked completed.
C20_RemoteErrorFailsStep ==
    [][\A p \in Procs :
          /\ (proc[p].pc = "fetch" /\ proc'[p] # proc[p] /\ proc'[p].failed_at # 0)
             => /\ proc'[p].step_calls = proc'[p].failed_at
                /\ log'[proc[p].row].status = "failed"
                /\ log'[proc[p].row].error_message # ""
          /\ (/\ proc[p].row # 0
              /\ log[proc[p].row].status = "running"
              /\ log'[proc[p].row].status = "completed")
             => proc[p].failed_at = 0]_vars

----------------------------------------------------------------------------
(* SpecBackfill: one operator backfills a window with successive           *)
(* safe_chunked_historical_sync calls of zero, one or two chunks per call; *)
(* any remote call may fail, and the time-entry fallback may return the    *)
(* same entries once per workspace user. No call is killed and the date    *)
(* does not change.                                                        *)

ChunksPerCallFrom0 == {0, 1, 2}

BackfillNext ==
    \/ \E n \in ChunksPerCallFrom0 :
          /\ Admitted(MaxLogBackfill, call_rows(1, config.total_days, config.chunk_size, n))
          /\ safe_chunked_historical_sync(1, 1, config.total_days, config.chunk_size, n)
    \/ \E p \in Procs : Begin(p)
    \/ \E p \in Procs : Fetch(p, {0}, {2})
    \/ \E p \in Procs : Stage(p)
    \/ \E p \in Procs : Commit(p)
    \/ \E p \in Procs : Finish(p)
    \/ \E p \in Procs : failed_log(p)

SpecBackfill == InitChunk /\ [][BackfillNext]_vars

\* the k lowest indices of a set of chunk indices, ascending
RECURSIVE lowest(_, _)
lowest(indices, k) ==
    IF k = 0 \/ indices = {} THEN <<>>
    ELSE LET c == CHOOSE c \in indices : \A e \in indices : c <= e
         IN  <<c>> \o lowest(indices \ {c}, k - 1)

\* C14: for every state of the log and every chunks_per_call >= 0,
\* get_next_historical_chunks returns the min(chunks_per_call, number of uncompleted
\* chunks) lowest-indexed chunks that have no completed attempt, in ascending order, and
\* the safe_chunked_historical_sync call attempts at most chunks_per_call chunks.
C14_AtMostChunksPerCall ==
    [][\A n \in ChunksPerCallFrom0 :
          safe_chunked_historical_sync(1, 1, config.total_days, config.chunk_size, n)
          => LET selected == proc'[1].next_chunks[1].chunks_to_process
                 open == uncompleted_chunks(1, config.total_days, config.chunk_size)
             IN  /\ [k \in 1..Len(selected) |-> selected[k].chunk_index]
                       = lowest(open, Min(n, Cardinality(open)))
                 /\ Len(SelectSeq(proc'[1].plan, LAMBDA item : item.idx # None)) <= n]_vars

\* C15: when a chunk of a safe_chunked_historical_sync call of more than one chunk
\* fails, the call ends with a failed row that carries an error message and the chunk's
\* date range, it has attempted no later chunk, the chunks it completed before are
\* completed in the log and counted in chunks_processed, and the next call selects the
\* failed chunk again.
C15_FailedChunkStopsCall ==
    [][\A p \in Procs :
          (/\ proc[p].op = "historical" /\ proc[p].pc # "idle"
           /\ Len(proc[p].next_chunks[1].chunks_to_process) > 1
           /\ Current(p).idx # None
           /\ proc'[p].pc = "idle"
           /\ proc[p].row # 0 => log'[proc[p].row].status # "completed")
          => LET chunk == Current(p)
                 chunks == proc[p].next_chunks[1].chunks_to_process
                 before == {k \in 1..Len(chunks) : chunks[k].chunk_index < chunk.idx[1]}
                 after == {k \in 1..Len(chunks) : chunks[k].chunk_index > chunk.idx[1]}
                 rows == proc'[p].logs
             IN  /\ \E k \in 1..Len(rows) :
                       /\ log'[rows[k]].status = "failed"
                       /\ log'[rows[k]].error_message # ""
                       /\ log'[rows[k]].date_range_start = chunk.rs
                       /\ log'[rows[k]].date_range_end = chunk.re
                 /\ \A a \in after : ~ \E k \in 1..Len(rows) :
                       /\ log'[rows[k]].date_range_start = Some(chunks[a].start_date)
                       /\ log'[rows[k]].date_range_end = Some(chunks[a].end_date)
                 /\ \A b \in before : \E k \in 1..Len(rows) :
                       /\ log'[rows[k]].status = "completed"
                       /\ log'[rows[k]].date_range_start = Some(chunks[b].start_date)
                       /\ log'[rows[k]].date_range_end = Some(chunks[b].end_date)
                 /\ proc'[p].result # None
                 /\ proc'[p].result[1].chunks_processed = Cardinality(before)
                 /\ get_next_historical_chunks(proc[p].ws, config.total_days,
                                               config.chunk_size, 1)'.chunks_to_process[1]
                       .chunk_index = chunk.idx[1]]_vars

\* C17: total_chunks is ceil(total_days / chunk_size) (13 for 365 days in 30-day
\* chunks); a call reports is_first_chunk exactly when no chunk has a completed attempt;
\* and every safe_chunked_historical_sync call returns a result whose chunks_remaining
\* is the number of chunks that still have no completed time-entry attempt, with status
\* completed exactly when that number is 0.
C17_RemainingMatchesLog ==
    [][\A p \in Procs :
          (proc'[p] # proc[p] /\ proc'[p].op = "historical")
          => \A ws \in Workspaces : ws = proc'[p].ws =>
             LET all == 0..(Ceiling(config.total_days, config.chunk_size) - 1)
                 open == uncompleted_chunks(ws, config.total_days, config.chunk_size)
             IN  /\ total_chunks(365, 30) = 13
                 /\ proc'[p].next_chunks[1].total_chunks = Cardinality(all)
                 /\ proc[p].pc = "idle" =>
                       (proc'[p].next_chunks[1].is_first_chunk <=> open = all)
                 /\ proc'[p].pc = "idle" =>
                       /\ proc'[p].result # None
                       /\ proc'[p].result[1].chunks_remaining = Cardinality(open')
                       /\ proc'[p].result[1].status = "completed" <=> open' = {}]_vars

\* C32: every SyncAttempt row is created with status running, one row at a time, at
\* the start of its operation and before the operation's first remote call; a row is
\* changed once only, from running to completed or failed; and a chunk that was
\* attempted adds one row to the log.
C32_RowCreatedRunningMutatedOnce ==
    [][/\ Len(log') >= Len(log)
       /\ Len(log') > Len(log)
          => /\ Len(log') = Len(log) + 1
             /\ log'[Len(log')].status = "running"
       /\ \A i \in 1..Len(log) :
             log'[i] # log[i]
             => log[i].status = "running" /\ log'[i].status \in {"completed", "failed"}
       /\ \A p \in Procs :
             /\ proc'[p].ncalls > proc[p].ncalls
                => proc[p].row # 0 /\ log[proc[p].row].status = "running"
             /\ (Len(proc'[p].logs) > Len(proc[p].logs) /\ proc[p].logs # <<>>)
                => LET last == log[proc[p].logs[Len(proc[p].logs)]]
                       new == log'[Len(log')]
                   IN  ~(/\ new.date_range_start # None
                         /\ last.date_range_start = new.date_range_start
                         /\ last.date_range_end = new.date_range_end)]_vars

----------------------------------------------------------------------------
(* SpecHistory: one handler serves POST /api/sync/chunked-historical, the  *)
(* whole window in one call; any remote call may fail.                     *)

\* the rows a chunked_historical_sync call may insert: the metadata rows, then for each
\* chunk its row and the failed row of the loop
history_rows(total_days, chunk_size) ==
    Len(MetadataPlan) + 2 * total_chunks(total_days, chunk_size)

HistoryNext ==
    \/ /\ Admitted(MaxLogHistory, history_rows(config.total_days, config.chunk_size))
       /\ chunked_historical_sync(1, 1, config.total_days, config.chunk_size)
    \/ \E p \in Procs : Begin(p)
    \/ \E p \in Procs : Fetch(p, {0}, {2})
    \/ \E p \in Procs : Stage(p)
    \/ \E p \in Procs : Commit(p)
    \/ \E p \in Procs : Finish(p)
    \/ \E p \in Procs : failed_log(p)

SpecHistory == InitChunk /\ [][HistoryNext]_vars

\* the rows of the attempts a chunked call has made that are failed chunk attempts
failed_chunk_rows(p) ==
    {k \in 1..Len(proc[p].logs) :
        /\ log[proc[p].logs[k]].status = "failed"
        /\ log[proc[p].logs[k]].date_range_start # None}

\* C16: in chunked_historical_sync, once a chunk has failed the invocation inserts no
\* further SyncAttempt row for a later chunk and makes no further remote call, and the
\* attempts list it returns ends with the failed chunk's attempt.
C16_StopsAtFailedChunk ==
    [][\A p \in Procs :
          /\ (proc[p].op = "chunked" /\ proc[p].pc \in {"begin", "fetch"}
                 /\ failed_chunk_rows(p) # {})
             => /\ proc'[p].ncalls = proc[p].ncalls
                /\ Len(log') = Len(log)
          /\ (proc[p].op = "chunked" /\ proc[p].pc # "idle" /\ proc'[p].pc = "idle"
                 /\ proc'[p].out = "ok"
                 /\ \E k \in 1..Len(proc'[p].sync_logs) :
                       log'[proc'[p].sync_logs[k]].status = "failed")
             => log'[proc'[p].sync_logs[Len(proc'[p].sync_logs)]].status = "failed"]_vars

----------------------------------------------------------------------------
(* Crashes during a backfill (SpecChunk).                                  *)

----------------------------------------------------------------------------
(* SpecAuto: the scheduler (or a cron job) calls run_automatic_daily_sync  *)
(* for a workspace again and again, hours and days apart, on a server      *)
(* whose local time is utc_offset hours ahead of UTC; time-entry syncs are *)
(* also started by hand. Here the clock counts TicksPerHour ticks an hour, *)
(* and today is the local date of the clock.                               *)

TicksPerHour == 8
MaxAutoDays == 34
DailyDays == 2
MaxLogAuto == 3
FirstSyncDays == 7
MaxRecommendedDays == 30

UtcOffsets == {0, 10}
\* hours that pass between two calls
AutoWaits == {1, 24, 24 * 32}

utc_hours(t) == t \div TicksPerHour

\* datetime.now().hour and the date of a datetime in the server's local time
local_hour == (utc_hours(clock) + config.utc_offset) % 24
local_date(t) == Day0 + (utc_hours(t) + config.utc_offset) \div 24

\* the date of a naive UTC datetime, as datetime.utcnow() gives
utc_date(t) == Day0 + utc_hours(t) \div 24

\* the settings of the workspaces (auto_sync, sync_interval) and the server's zone
AutoConfigs ==
    {[total_days |-> 90, chunk_size |-> 30, auto_sync |-> a, sync_interval |-> 9,
      utc_offset |-> o] : a \in BOOLEAN, o \in UtcOffsets}

\* The first call is made in the local hour before the sync hour.
InitAuto ==
    /\ config \in AutoConfigs
    /\ clock = TicksPerHour * (24 + config.sync_interval - 1 - config.utc_offset)
    /\ today = local_date(clock)
    /\ log = <<>>
    /\ tables = EmptyTables
    /\ proc = [p \in Procs |-> Idle]
    /\ remote = SmallWorkspace
    /\ InitTransport

\* should_run_automatic_sync: the setting, the hour, and the query for a completed
\* time-entry row whose start_time, a UTC timestamp, lies within today, the local date.
should_run_automatic_sync(ws) ==
    /\ config.auto_sync
    /\ local_hour = config.sync_interval
    /\ ~\E i \in 1..Len(log) :
          /\ log[i].workspace_id = ws
          /\ log[i].sync_type = "time_entries"
          /\ log[i].status = "completed"
          /\ utc_date(log[i].start_time) = today

\* the completed time-entry row with the latest end_time, 0 for None
last_sync(ws) ==
    LET done == {i \in 1..Len(log) : /\ log[i].workspace_id = ws
                                     /\ log[i].sync_type = "time_entries"
                                     /\ log[i].status = "completed"}
    IN  IF done = {} THEN 0
        ELSE CHOOSE i \in done : \A j \in done : log[j].end_time[1] <= log[i].end_time[1]

get_daily_sync_recommendation(ws) ==
    LET last == last_sync(ws)
        recommended_days ==
            Min(IF last # 0 /\ log[last].date_range_end # None
                THEN Max(1, (today - log[last].date_range_end[1]) + 1)
                ELSE FirstSyncDays,
                MaxRecommendedDays)
        estimated_entries == recommended_days * 3
        pagination_calls == Max(1, (estimated_entries + 49) \div 50)
        estimated_api_calls == 3 + pagination_calls
    IN  [recommended_days |-> recommended_days,
         estimated_api_calls |-> estimated_api_calls,
         is_safe_for_free_plan |-> estimated_api_calls <= 25]

\* run_automatic_daily_sync up to sync_time_entries_only: None when the sync should not
\* run or is not safe, else the time-entry sync of the recommended days.
run_automatic_daily_sync(p, ws) ==
    /\ proc[p].pc = "idle"
    /\ LET recommendation == get_daily_sync_recommendation(ws)
           days == recommendation.recommended_days
       IN  proc' = [proc EXCEPT ![p] =
              IF ~should_run_automatic_sync(ws)
              THEN Refuse("auto", ws, "time_entries", 0, "skipped")
              ELSE IF ~recommendation.is_safe_for_free_plan
              THEN Refuse("auto", ws, "time_entries", days, "skipped")
              ELSE Enter("auto", ws, "time_entries", days, <<TimeEntriesBack(days)>>)]
    /\ UNCHANGED <<log, tables, today, clock, remote, config, transport>>

\* Hours pass between two calls; the calls are made in the hour before the sync hour
\* and in the sync hour of a day, day after day for DailyDays days, and after an
\* outage of a month.
Pass(hours) ==
    /\ \A p \in Procs : proc[p].pc = "idle"
    /\ hours % 24 # 0 => local_hour < config.sync_interval
    /\ hours = 24 => utc_hours(clock) + hours <= 24 * (DailyDays + 1)
    /\ utc_hours(clock) + hours <= 24 * MaxAutoDays
    /\ clock' = (utc_hours(clock) + hours) * TicksPerHour
    /\ today' = local_date(clock')
    /\ UNCHANGED <<log, tables, proc, remote, config, transport>>

\* a call is made when the hour has room for the timestamps of its sync
in_hour == clock % TicksPerHour <= TicksPerHour - 3

AutoNext ==
    \/ \E ws \in Workspaces :
          /\ in_hour
          /\ Admitted(MaxLogAuto, 1) \/ ~should_run_automatic_sync(ws)
          /\ run_automatic_daily_sync(1, ws)
    \/ in_hour /\ Admitted(MaxLogAuto, 1) /\ start_sync(1, 1, "time_entries", 1)
    \/ Begin(1)
    \/ Fetch(1, {0}, {0})
    \/ Stage(1)
    \/ Commit(1)
    \/ Finish(1)
    \/ \E hours \in AutoWaits : Pass(hours)

SpecAuto == InitAuto /\ [][AutoNext]_vars

\* the completed time-entry attempts of a workspace that started on the server's today
started_today(ws) ==
    {i \in 1..Len(log) : /\ log[i].workspace_id = ws
                         /\ log[i].sync_type = "time_entries"
                         /\ log[i].status = "completed"
                         /\ local_date(log[i].start_time) = today}

\* C29: a call of run_automatic_daily_sync starts a sync only if auto-sync is enabled,
\* the current hour is the configured hour and no completed time-entry attempt of the
\* workspace started today; and a call made when such an attempt has completed today
\* returns None, making no remote call and creating no row: no second sync that day.
C29_AutomaticSyncOncePerDay ==
    [][\A p \in Procs :
         (proc[p].pc = "idle" /\ proc'[p] # proc[p] /\ proc'[p].op = "auto")
         => /\ proc'[p].pc # "idle"
               => /\ config.auto_sync
                  /\ local_hour = config.sync_interval
                  /\ started_today(proc'[p].ws) = {}
            /\ started_today(proc'[p].ws) # {}
               => /\ proc'[p].pc = "idle" /\ proc'[p].out = "skipped"
                  /\ proc'[p].ncalls = 0
                  /\ log' = log]_vars

\* C30: the range of an automatic sync, [today - recommended_days, today], starts on or
\* before the end of the range of the last completed time-entry sync of the workspace,
\* however many days have passed since: no day in between is left out.
C30_AutomaticSyncCoversGap ==
    [][\A p \in Procs :
         (/\ proc[p].op = "auto" /\ proc[p].pc = "begin"
          /\ Len(log') = Len(log) + 1
          /\ last_sync(proc[p].ws) # 0)
         => log'[Len(log')].date_range_start[1]
               <= log[last_sync(proc[p].ws)].date_range_end[1]]_vars

----------------------------------------------------------------------------
(* SpecCleanup: POST /api/sync/cleanup/{workspace_id} on a database that    *)
(* earlier syncs of two workspaces have filled on several days.            *)

MaxCleanupRows == 3
\* the days on which the cached entries were last synced
SyncDates == {Day0 - 8, Day0 - 7, Day0}
\* days_to_keep: Query(90, ge=7, le=365)
DaysToKeep == {7, 8}

\* the filter of the delete: the workspace's rows synced before the cutoff date
old_time_entry_any_workspace(row, workspace_id, cutoff_date) ==
    row.sync_date < cutoff_date

old_time_entry(row, workspace_id, cutoff_date) ==
    /\ row.workspace_id = workspace_id
    /\ row.sync_date < cutoff_date

\* cleanup_old_time_entries(workspace_id, days_to_keep) behind cleanup_old_data: the
\* delete, the commit, the count returned in deleted_records.
cleanup_old_time_entries(p, workspace_id, days_to_keep) ==
    /\ proc[p].pc = "idle"
    /\ LET cutoff_date == today - days_to_keep
           old(row) == old_time_entry(row, workspace_id, cutoff_date)
           deleted_count == Len(SelectSeq(tables.time_entries, old))
       IN  /\ tables' = [tables EXCEPT !.time_entries =
                             SelectSeq(@, LAMBDA row : ~old(row))]
           /\ proc' = [proc EXCEPT ![p] =
                  [Refuse("cleanup", workspace_id, "none", days_to_keep, "ok")
                      EXCEPT !.result = Some(deleted_count)]]
    /\ UNCHANGED <<log, today, clock, remote, config, transport>>

InitCleanup ==
    /\ InitTransport
    /\ today = Day0
    /\ clock = 1
    /\ proc = [p \in Procs |-> Idle]
    /\ remote = SmallWorkspace
    /\ config = DefaultWindow
    /\ log = <<[SyncLog(1, "time_entries", Some(Day0 - 8), Some(Day0 - 7))
                   EXCEPT !.status = "completed", !.end_time = Some(1)],
               SyncLog(2, "time_entries", Some(Day0 - 7), Some(Day0))>>
    /\ \E n \in 0..MaxCleanupRows :
         \E ws \in [1..n -> Workspaces], day \in [1..n -> SyncDates], val \in [1..n -> {1, 2}] :
            tables = [k \in EntityKinds |->
               IF k = "time_entries"
               THEN [i \in 1..n |->
                       [id |-> i, toggl_id |-> i, val |-> val[i], ref |-> 1,
                        workspace_id |-> ws[i], updated_at |-> 1, sync_date |-> day[i]]]
               ELSE <<[id |-> 1, toggl_id |-> 1, val |-> 1, ref |-> 0,
                       workspace_id |-> 1, updated_at |-> 1, sync_date |-> 0]>>]

CleanupNext ==
    \/ \E p \in Procs, ws \in Workspaces, days_to_keep \in DaysToKeep :
          cleanup_old_time_entries(p, ws, days_to_keep)
    \/ NextDay

SpecCleanup == InitCleanup /\ [][CleanupNext]_vars

\* the rows of a table, as a set
rows(table) == {table[i] : i \in 1..Len(table)}

\* C33: a cleanup of a workspace deletes exactly the time-entry rows of that workspace
\* whose sync_date is before today - days_to_keep, whatever their content, and returns
\* their number; the sync_logs rows, the client, project and member rows, and the
\* time-entry rows of another workspace or with a newer sync_date stay as they were.
C33_CleanupDeletesOnlyOldRowsOfWorkspace ==
    [][\A p \in Procs :
         (proc'[p] # proc[p] /\ proc'[p].op = "cleanup")
         => LET ws == proc'[p].ws
                cutoff == today - proc'[p].days
                gone == rows(tables.time_entries) \ rows(tables'.time_entries)
            IN  /\ gone = {row \in rows(tables.time_entries) :
                             row.workspace_id = ws /\ row.sync_date < cutoff}
                /\ rows(tables'.time_entries) \subseteq rows(tables.time_entries)
                /\ proc'[p].result = Some(Cardinality(gone))
                /\ log' = log
                /\ \A k \in EntityKinds \ {"time_entries"} : tables'[k] = tables[k]]_vars

\* a cleanup of workspace 1 has deleted one of three rows: a row of workspace 2 of the
\* same age and a row of workspace 1 synced on the cutoff date are still there
C33_Witness ==
    /\ proc[1].op = "cleanup" /\ proc[1].ws = 1 /\ proc[1].result = Some(1)
    /\ Len(tables.time_entries) = 2
    /\ \E i, j \in 1..2 :
          /\ tables.time_entries[i].workspace_id = 2
          /\ tables.time_entries[i].sync_date = Day0 - 8
          /\ tables.time_entries[j].workspace_id = 1
          /\ tables.time_entries[j].sync_date = today - proc[1].days
    /\ proc[2].op = "none"

----------------------------------------------------------------------------
(* SpecDates: the accessors that take date strings. A date string is the   *)
(* sequence of its characters; an optional date is None or Some(string).   *)

DigitChars == <<"0", "1", "2", "3", "4", "5", "6", "7", "8", "9">>
is_digit(c) == \E n \in 1..10 : DigitChars[n] = c
digit(c) == (CHOOSE n \in 1..10 : DigitChars[n] = c) - 1

RECURSIVE number(_)
number(field) ==
    IF field = <<>> THEN 0
    ELSE 10 * number(SubSeq(field, 1, Len(field) - 1)) + digit(field[Len(field)])

\* the fields of a string between its hyphens
RECURSIVE split(_)
split(str) ==
    IF \A i \in 1..Len(str) : str[i] # "-" THEN <<str>>
    ELSE LET i == CHOOSE i \in 1..Len(str) :
                     str[i] = "-" /\ \A j \in 1..(i - 1) : str[j] # "-"
         IN  <<SubSeq(str, 1, i - 1)>> \o split(SubSeq(str, i + 1, Len(str)))

is_leap(year) == year % 4 = 0 /\ (year % 100 # 0 \/ year % 400 = 0)
days_in_month(year, month) ==
    IF month = 2 THEN (IF is_leap(year) THEN 29 ELSE 28)
    ELSE IF month \in {4, 6, 9, 11} THEN 30 ELSE 31

\* the directives of strptime: %Y is \d\d\d\d, %m is 1[0-2]|0[1-9]|[1-9], %d is
\* 3[01]|[12]\d|0[1-9]|[1-9]| [1-9]
directive_Y(field) == Len(field) = 4 /\ \A i \in 1..4 : is_digit(field[i])
directive_m(field) ==
    \/ Len(field) = 2 /\ field[1] = "1" /\ field[2] \in {"0", "1", "2"}
    \/ Len(field) = 2 /\ field[1] = "0" /\ is_digit(field[2]) /\ field[2] # "0"
    \/ Len(field) = 1 /\ is_digit(field[1]) /\ field[1] # "0"
directive_d(field) ==
    \/ Len(field) = 2 /\ field[1] = "3" /\ field[2] \in {"0", "1"}
    \/ Len(field) = 2 /\ field[1] \in {"1", "2"} /\ is_digit(field[2])
    \/ Len(field) = 2 /\ field[1] \in {"0", " "} /\ is_digit(field[2]) /\ field[2] # "0"
    \/ Len(field) = 1 /\ is_digit(field[1]) /\ field[1] # "0"

\* datetime.strptime(date_str, '%Y-%m-%d') raises no ValueError
strptime_ok(date_str) ==
    LET fields == split(date_str)
    IN  /\ Len(fields) = 3
        /\ directive_Y(fields[1]) /\ directive_m(fields[2]) /\ directive_d(fields[3])
        /\ LET year == number(fields[1])
               month == number(fields[2])
               day == number(SelectSeq(fields[3], is_digit))
           IN  year >= 1 /\ day <= days_in_month(year, month)

validate_date_format(date_str) == strptime_ok(date_str)

\* `if start_date and not _validate_date_format(start_date)` in the accessors whose
\* dates are optional, `if not _validate_date_format(start_date)` in get_summary_report
invalid_date(accessor, date) ==
    IF accessor = "get_summary_report"
    THEN ~validate_date_format(IF date = None THEN <<>> ELSE date[1])
    ELSE date # None /\ date[1] # <<>> /\ ~validate_date_format(date[1])

DatedAccessors ==
    {"get_time_entries", "get_summary_report", "get_workspace_time_entries_with_clients"}

\* The head of an accessor: the two validations, then its first step. requested keeps
\* the date parameters of the requests of get_time_entries and get_summary_report.
dated_call(accessor, ws, start_date, end_date) ==
    /\ client.call.pc = "idle"
    /\ accessor = "get_summary_report" => start_date # None /\ end_date # None
    /\ LET call == [accessor |-> accessor, start_date |-> start_date,
                    end_date |-> end_date] @@ [NoCall EXCEPT !.ws = ws]
       IN  client' = [client EXCEPT !.call =
              IF invalid_date(accessor, start_date) \/ invalid_date(accessor, end_date)
              THEN raise(call)
              ELSE IF accessor = "get_workspace_time_entries_with_clients"
              THEN [call EXCEPT !.pc = "mapping", !.path = "reports", !.page = 1]
              ELSE [call EXCEPT !.pc = "request", !.path = accessor]]
    /\ UNCHANGED <<now, last_request_time, sent, thread>>
    /\ UNCHANGED <<log, tables, today, clock, proc, remote, config>>

\* the request of get_time_entries and of get_summary_report, whose failure propagates
request_dated(ok) ==
    /\ client.call.pc = "request"
    /\ LET call == client.call
           params == <<call.start_date, call.end_date>>
           sent_call == [call EXCEPT !.requested = Append(@, params)]
       IN  client' = [client EXCEPT !.call =
              IF ok THEN return(sent_call) ELSE raise(sent_call)]
    /\ UNCHANGED <<now, last_request_time, sent, thread>>
    /\ UNCHANGED <<log, tables, today, clock, proc, remote, config>>

\* "2023-01-05", "2023-1-5", "2024-02-29", "2023-02-30", "01-01-2023", "2023/01/01",
\* "date" and ""
DateStrings ==
    {<<"2", "0", "2", "3", "-", "0", "1", "-", "0", "5">>,
     <<"2", "0", "2", "3", "-", "1", "-", "5">>,
     <<"2", "0", "2", "4", "-", "0", "2", "-", "2", "9">>,
     <<"2", "0", "2", "3", "-", "0", "2", "-", "3", "0">>,
     <<"0", "1", "-", "0", "1", "-", "2", "0", "2", "3">>,
     <<"2", "0", "2", "3", "/", "0", "1", "/", "0", "1">>,
     <<"d", "a", "t", "e">>,
     <<>>}

OptionalDates == {None} \cup {Some(str) : str \in DateStrings}

DatesNext ==
    \/ \E accessor \in DatedAccessors, start_date, end_date \in OptionalDates :
          dated_call(accessor, 1, start_date, end_date)
    \/ \E ok \in BOOLEAN : request_dated(ok)
    \/ PagesStep

SpecDates == InitClient /\ [][DatesNext]_vars

\* a date in the form YYYY-MM-DD: four, two and two digits, a day of the calendar
iso_date(str) ==
    /\ Len(str) = 10
    /\ str[5] = "-" /\ str[8] = "-"
    /\ \A i \in {1, 2, 3, 4, 6, 7, 9, 10} : is_digit(str[i])
    /\ LET year == number(SubSeq(str, 1, 4))
           month == number(SubSeq(str, 6, 7))
           day == number(SubSeq(str, 9, 10))
       IN  year >= 1 /\ month \in 1..12 /\ day \in 1..days_in_month(year, month)

\* C34: a call of an accessor with a start or end date that is not a valid YYYY-MM-DD
\* date fails at once: it raises with no request made, and the cached project-client
\* map, its timestamp and the throttle timestamp stay as they were.
C34_InvalidDateRejectedBeforeRequest ==
    [][(client.call.pc = "idle" /\ client'.call # client.call)
       => LET call == client'.call
          IN  (\E date \in {call.start_date, call.end_date} :
                  date # None /\ ~iso_date(date[1]))
              => /\ call.pc = "idle" /\ call.out = "raised"
                 /\ call.requested = <<>>
                 /\ client'.client_project_cache = client.client_project_cache
                 /\ client'.cache_timestamp = client.cache_timestamp
                 /\ last_request_time' = last_request_time]_vars

----------------------------------------------------------------------------
(* SpecScrub: the text of the responses. A text is the sequence of its      *)
(* parts: words, runs of hexadecimal digits of a given length, e-mail        *)
(* addresses, and the two placeholders of the scrubber.                      *)

Word == [kind |-> "word", len |-> 0]
Hex(len) == [kind |-> "hex", len |-> len]
Email == [kind |-> "email", len |-> 0]
ApiTokenMark == [kind |-> "[API_TOKEN]", len |-> 0]
EmailMark == [kind |-> "[EMAIL]", len |-> 0]

\* re.sub(r'[a-fA-F0-9]{32,64}', '[API_TOKEN]', ...) on one run of hex digits
RECURSIVE sub_hex(_)
sub_hex(len) ==
    IF len < 32 THEN (IF len = 0 THEN <<>> ELSE <<Hex(len)>>)
    ELSE <<ApiTokenMark>> \o sub_hex(IF len > 64 THEN len - 64 ELSE 0)

\* _sanitize_credentials(text)
RECURSIVE sanitize_credentials(_)
sanitize_credentials(text) ==
    IF text = <<>> THEN text
    ELSE LET part == Head(text)
         IN  (CASE part.kind = "hex" -> sub_hex(part.len)
                [] part.kind = "email" -> <<EmailMark>>
                [] OTHER -> <<part>>) \o sanitize_credentials(Tail(text))

\* The texts of an error of one attempt: the response_text the exception carries, the
\* variable part of its message, which is also the part of the log line. text is
\* response.text, or str(e) of the exception of session.request; the message of a
\* JSON decoding error names a position in the body, not the body.
error_texts(status, text) ==
    LET code == status_code(status)
        none == [response_text |-> None, message_text |-> <<>>]
    IN  IF status = "network"
        THEN [none EXCEPT !.message_text = sanitize_credentials(text)]
        ELSE IF status = "malformed" THEN [none EXCEPT !.message_text = <<Word>>]
        ELSE IF code[1] \in {429, 402, 410}
             THEN [none EXCEPT !.response_text = Some(text)]
        ELSE IF code[1] >= 400
             THEN [none EXCEPT !.response_text = Some(sanitize_credentials(text))]
        ELSE none

\* receive, with the text of the response
receive_text(t, status, text) ==
    /\ thread[t].pc = "wait"
    /\ \E result \in attempt_results(status) :
          thread' = [thread EXCEPT ![t] =
             IF retried(result) /\ thread[t].tries < max_tries
             THEN [@ EXCEPT !.pc = "throttle", !.tries = @ + 1, !.attempts = @ + 1,
                            !.status = status]
             ELSE [@ EXCEPT !.pc = "idle", !.status = status,
                            !.out = IF result.kind = "raise"
                                    THEN result @@ error_texts(status, text)
                                    ELSE result]]
    /\ UNCHANGED <<now, last_request_time, sent>>
    /\ UNCHANGED <<log, tables, today, clock, proc, remote, config, client>>

\* texts with a token of 32 and of 64 hex digits, with a run too short and a run too
\* long for one token, with an address, and without any of them
Texts ==
    {<<>>, <<Word>>, <<Word, Hex(32), Word>>, <<Hex(64)>>, <<Hex(31)>>, <<Hex(70)>>,
     <<Word, Email>>}

ScrubNext ==
    \/ Len(sent) + Cardinality(in_throttle) < MaxRequests /\ make_request(1)
    \/ throttle_request(1)
    \/ wake_up(1)
    \/ send_request(1)
    \/ \E status \in Statuses, text \in Texts :
          (status = "rate_limited" => Len(sent) < MaxRequests) /\ receive_text(1, status, text)
    \/ Tick

SpecScrub == InitThrottle /\ [][ScrubNext]_vars

\* a token of at least 32 hex digits, or an address
credential(part) == part.kind = "email" \/ (part.kind = "hex" /\ part.len >= 32)
has_credential(text) == \E i \in 1..Len(text) : credential(text[i])

\* C35: whatever error a call ends with, the response text the error carries and the
\* text of its message and log line hold no token of 32 to 64 hex digits and no e-mail
\* address: they have passed through the scrubber.
C35_ErrorTextsScrubbed ==
    \A t \in Threads :
       thread[t].out.kind = "raise"
       => /\ ~has_credential(thread[t].out.message_text)
          /\ thread[t].out.response_text # None
             => ~has_credential(thread[t].out.response_text[1])

----------------------------------------------------------------------------
(* SpecDaily: the daily time-entry syncs of a workspace and the calls of    *)
(* its historical backfill share the sync_logs table.                       *)

MaxLogDaily == 5
\* time_entries_days of the daily syncs: the default 7, and 1
DailySyncDays == {1, 7}

DailyNext ==
    \/ \E days \in DailySyncDays :
          Admitted(MaxLogDaily, 1) /\ start_sync(1, 1, "time_entries_only", days)
    \/ \E n \in ChunksPerCall :
          /\ Admitted(MaxLogDaily, call_rows(1, config.total_days, config.chunk_size, n))
          /\ safe_chunked_historical_sync(1, 1, config.total_days, config.chunk_size, n)
    \/ Begin(1)
    \/ Fetch(1, {0}, {0})
    \/ Stage(1)
    \/ Commit(1)
    \/ Finish(1)
    \/ failed_log(1)

SpecDaily == InitChunk /\ [][DailyNext]_vars

\* some completed time-entry attempt of the workspace covers the whole range of the chunk
chunk_covered(ws, chunk) ==
    \E i \in 1..Len(log) :
       /\ log[i].workspace_id = ws
       /\ log[i].sync_type = "time_entries"
       /\ log[i].status = "completed"
       /\ log[i].date_range_start # None /\ log[i].date_range_end # None
       /\ log[i].date_range_start[1] <= chunk.start_date
       /\ log[i].date_range_end[1] >= chunk.end_date

\* C36: a call of the historical backfill passes over a chunk only if some completed
\* time-entry attempt of the workspace covers the chunk's whole date range, and leaves
\* the metadata sync out only if some chunk is covered in that way: a completed attempt
\* over a shorter range makes no chunk count as done.
C36_ShortSyncCompletesNoChunk ==
    [][\A p \in Procs :
         (proc[p].pc = "idle" /\ proc'[p] # proc[p] /\ proc'[p].op = "historical")
         => LET next_chunks == proc'[p].next_chunks[1]
                listed == {next_chunks.chunks_to_process[k].chunk_index :
                              k \in 1..Len(next_chunks.chunks_to_process)}
                indices == 0..(total_chunks(config.total_days, config.chunk_size) - 1)
                passed == {k \in indices \ listed :
                              listed = {} \/ \E l \in listed : k < l}
                chunk(k) == chunk_range(config.total_days, config.chunk_size, k)
            IN  /\ \A k \in passed : chunk_covered(proc'[p].ws, chunk(k))
                /\ ~next_chunks.is_first_chunk
                   => \E k \in indices : chunk_covered(proc'[p].ws, chunk(k))]_vars

----------------------------------------------------------------------------
(* SpecPartial: time-entry syncs of a workspace whose remote entries may    *)
(* carry a start that is not an ISO time.                                   *)

MaxLogPartial == 3

PartialPulls ==
    {<<Record(1, 1, 1)>>, <<Record(1, 0, 1)>>,
     <<Record(1, 2, 1), Record(2, 0, 1)>>,
     <<Record(2, 1, 0), Record(3, 1, 0), Record(1, 0, 0)>>}

PartialNext ==
    \/ Admitted(MaxLogPartial, 1) /\ start_sync(1, 1, "time_entries", 1)
    \/ Begin(1)
    \/ Fetch(1, {0}, {0})
    \/ Stage(1)
    \/ Commit(1)
    \/ Finish(1)
    \/ proc[1].pc = "fetch" /\ RemoteChange("time_entries", PartialPulls)

SpecPartial == Init /\ [][PartialNext]_vars

\* C37: when the upsert loop of an entity sync raises after staging some entries, the
\* attempt's row is marked failed and the tables are as they were before the sync:
\* none of the staged rows is committed.
C37_FailedSyncCommitsNoRows ==
    [][\A p \in Procs :
         (proc[p].pc = "stage" /\ proc'[p] # proc[p] /\ proc'[p].pc # "commit")
         => /\ log'[proc[p].row].status = "failed"
            /\ tables' = tables]_vars

----------------------------------------------------------------------------
(* SpecRestart: syncs of a workspace are started, run, and may be killed;   *)
(* the server is then restarted and takes requests again.                   *)

MaxLogRestart == 3

\* the steps of an operation that has been entered
RestartStep ==
    \/ \E p \in Procs : Begin(p)
    \/ \E p \in Procs : Fetch(p, {0}, {0})
    \/ \E p \in Procs : Stage(p)
    \/ \E p \in Procs : Commit(p)
    \/ \E p \in Procs : Finish(p)

RestartNext ==
    \/ \E p \in Procs, kind \in {"clients", "members"} :
          Admitted(MaxLogRestart, 1) /\ start_sync(p, 1, kind, 0)
    \/ RestartStep
    \/ \E p \in Procs : Crash(p)

SpecRestart == Init /\ [][RestartNext]_vars

\* an operation that is not killed goes on to its end
SpecRestartFair == SpecRestart /\ WF_vars(RestartStep)

\* C39: every row of sync_logs eventually leaves the running status, whether its
\* operation runs to its end or the process is killed inside it and restarted, so that
\* no running row keeps the start requests of its workspace refused for ever.
C39_RunningRowsEnd ==
    \A i \in 1..MaxLogRestart :
       (i <= Len(log) /\ log[i].status = "running")
          ~> (i <= Len(log) /\ log[i].status # "running")

----------------------------------------------------------------------------
(* SpecRanges: backfills of windows of every length up to MaxTotalDays in   *)
(* chunks of every size up to MaxChunkSize, by both operations.             *)

MaxTotalDays == 5
MaxChunkSize == 3
MaxLogRanges == 9

InitRanges ==
    /\ InitService
    /\ InitTransport
    /\ remote = SmallWorkspace
    /\ config \in {Window(total_days, chunk_size) :
                      total_days \in 1..MaxTotalDays, chunk_size \in 1..MaxChunkSize}

RangesNext ==
    \/ /\ Admitted(MaxLogRanges, history_rows(config.total_days, config.chunk_size))
       /\ chunked_historical_sync(1, 1, config.total_days, config.chunk_size)
    \/ \E n \in ChunksPerCall :
          /\ Admitted(MaxLogRanges, call_rows(1, config.total_days, config.chunk_size, n))
          /\ safe_chunked_historical_sync(1, 1, config.total_days, config.chunk_size, n)
    \/ Begin(1)
    \/ Fetch(1, {0}, {0})
    \/ Stage(1)
    \/ Commit(1)
    \/ Finish(1)
    \/ failed_log(1)

SpecRanges == InitRanges /\ [][RangesNext]_vars

\* the completed time-entry rows of workspace 1 over the range of a chunk
rows_over(chunk) ==
    {i \in 1..Len(log) : /\ log[i].workspace_id = 1
                         /\ log[i].sync_type = "time_entries"
                         /\ log[i].status = "completed"
                         /\ log[i].date_range_start = Some(chunk.start_date)
                         /\ log[i].date_range_end = Some(chunk.end_date)}

\* C40: the ranges of the chunks 0 .. total_chunks - 1 follow one another without gap
\* or overlap from today back to the first day of the window, total_days days in all,
\* each of at most chunk_size days; the loop of chunked_historical_sync computes the
\* same range for each index; and a completed attempt over the range of chunk i is
\* counted as chunk i.
C40_ChunkRangesPartitionWindow ==
    LET total_days == config.total_days
        chunk_size == config.chunk_size
        n == total_chunks(total_days, chunk_size)
        chunk(k) == chunk_range(total_days, chunk_size, k)
        looped == all_chunks(total_days, chunk_size)
    IN  /\ n >= 1
        /\ chunk(0).end_date = today
        /\ chunk(n - 1).start_date = today - (total_days - 1)
        /\ \A k \in 0..(n - 1) :
              /\ chunk(k).start_date <= chunk(k).end_date
              /\ chunk(k).end_date - chunk(k).start_date + 1 <= chunk_size
              /\ k < n - 1 => chunk(k + 1).end_date = chunk(k).start_date - 1
        /\ Len(looped) = n
        /\ \A k \in 0..(n - 1) :
              /\ looped[k + 1].rs = Some(chunk(k).start_date)
              /\ looped[k + 1].re = Some(chunk(k).end_date)
        /\ \A k \in 0..(n - 1) :
              /\ \A i \in rows_over(chunk(k)) :
                    (today - log[i].date_range_end[1]) \div chunk_size = k
              /\ rows_over(chunk(k)) # {}
                 => k \in completed_chunks(1, total_days, chunk_size)

\* a window of 5 days in chunks of 2: the three chunks, the last of one day, have been
\* synced and are counted
C40_Witness ==
    /\ config = Window(5, 2)
    /\ \A k \in 0..2 : rows_over(chunk_range(5, 2, k)) # {}
    /\ chunk_range(5, 2, 2).start_date = chunk_range(5, 2, 2).end_date
    /\ completed_chunks(1, 5, 2) = {0, 1, 2}

====
